---- MODULE Spec2Model ----
(***************************************************************************)
(* The terminal tab list (terminalTabsList.ts): a WorkbenchList of         *)
(* terminal instances that mirrors the terminal service's instance         *)
(* sequence, with its selection, list focus and the "single tab selected"  *)
(* context key.                                                            *)
(*                                                                         *)
(* The terminal service (the instance registry) and the generic list       *)
(* widget are collaborators whose code is outside the excerpt; they are    *)
(* modelled by what the tab list calls on them.  Events are dispatched     *)
(* synchronously: while the service still has notifications to deliver     *)
(* (pending), nothing else runs.  Row indices are 0-based, as in the       *)
(* source; sequences are 1-based, so row i holds list[i + 1].              *)
(***************************************************************************)
EXTENDS Integers, Sequences, FiniteSets, TLC

\* Number of terminal instances the service creates over a run (instance ids
\* are 1..MaxInstances and are never reused).
MaxInstances == 2

\* "no instance" (undefined) and "no row under the pointer" (e.index undefined).
None == 0
NoRow == -1
\* no reveal() call was made
NoReveal == -2

InstanceIds == 1..MaxInstances

VARIABLES
    instances,       \* ITerminalService.terminalInstances
    nextId,          \* id of the next instance the service creates
    list,            \* the list widget's element sequence
    selection,       \* the list widget's selected row indices
    focus,           \* the list widget's focused row indices
    singleSelected,  \* _terminalTabsSingleSelectedContextKey
    awaiting,        \* instances with an outstanding focusWhenReady()
    pending,         \* notifications the service is delivering, in order
    run,             \* the row action (split / kill) in progress
    last             \* what the last step did (its calls on collaborators)

vars == <<instances, nextId, list, selection, focus,
          singleSelected, awaiting, pending, run, last>>

\* The row renderer (TerminalTabsRenderer) with the list widget's rows.
VARIABLES
    clientWidth,     \* _container.clientWidth
    terminalGroups,  \* ITerminalService.terminalGroups, each a sequence of ids
    terminal,        \* per created instance: icon, statusList, dispose() calls
    rows,            \* the list widget's rendered rows: element and template
    cache,           \* the list widget's released templates (a stack), each
                     \* with the element it showed last
    renderDue,       \* an instances-changed notification is being delivered
    rlast            \* what the last renderer step did

rvars == <<clientWidth, terminalGroups, terminal, rows, cache, renderDue,
           rlast>>

\* The notebook editor's context keys (NotebookEditorContextKeys) with the
\* editor, its documents and the kernel service.
VARIABLES
    viewCells,           \* per document: viewModel.viewCells, a sequence of cells
    runState,            \* per created cell: metadata.runState
    editorDoc,           \* the editor's document (NoDoc: hasModel() is false)
    kernels,             \* the kernels registered with the kernel service
    binding,             \* per document: the kernel selected for it, or None
    keys,                \* the five context keys
    cellStateListeners,  \* _cellStateListeners: the cell of each listener
    liveListeners,       \* per cell: its state listeners not disposed of
    viewCellsListener,   \* the document whose onDidChangeViewCells is heard
    executionCount,      \* executionCount of the listeners' closure
    nlast                \* what the last step of this component did

nvars == <<viewCells, runState, editorDoc, kernels, binding, keys,
           cellStateListeners, liveListeners, viewCellsListener,
           executionCount, nlast>>

\* The workspace trust editor: the services it reads, what it displays, and
\* its debounced render.
VARIABLES
    trusted,              \* workspaceTrustManagementService.isWorkpaceTrusted()
    canSet,               \* ....canSetWorkspaceTrust()
    restrictedSettings,   \* number of settings requiring a trusted workspace
    installedExtensions,  \* number of extensions limited without trust
    trustedFolders,       \* number of trusted folders
    display,              \* what the editor displays
    rendering,            \* the re-entrancy guard of render
    pass,                 \* the render pass suspended at its await, if any
    passes,               \* number of render passes begun and not yet over
    timers,               \* number of pending timers of the debounced render
    burst,                \* render calls since a timer last fired
    dropped,              \* a call was dropped since a pass last began
    tlast                 \* what the last step of this component did

tvars == <<trusted, canSet, restrictedSettings, installedExtensions,
           trustedFolders, display, rendering, pass, passes, timers, burst,
           dropped, tlast>>

\* The workspace trust test doubles: one management double and one request
\* double.
VARIABLES
    managementTrusted,    \* TestWorkspaceTrustManagementService.trusted
    requestTrusted,       \* TestWorkspaceTrustRequestService._trusted
    constructed,          \* the constructor arguments of the two doubles
    fired,                \* the events the doubles' emitters fired, in order
    dlast                 \* what the last call on a double did

dvars == <<managementTrusted, requestTrusted, constructed, fired, dlast>>

\* Terminal profile detection as the tests of terminalProfiles.test.ts set it
\* up: a file-system provider, a profiles configuration and the result.
VARIABLES
    expectedPaths,        \* createFsProvider: the files that exist
    etcShellsContent,     \* createFsProvider: the lines of /etc/shells
    configProfiles,       \* the configured profiles, in the order of their keys
    detected,             \* the profiles detectAvailableProfiles resolved to
    plast                 \* what the last step of this component did

pvars == <<expectedPaths, etcShellsContent, configProfiles, detected, plast>>

\* The notebook key synchronizer's own life.
VARIABLES
    subscribed            \* the constructor's subscriptions (_disposables) live

\* The terminal view pane (TerminalViewPane) and what it reads of the
\* terminal service.
VARIABLES
    isProcessSupportRegistered, \* _terminalService.isProcessSupportRegistered
    terminalCount,        \* terminals of the service, each in its own group
    pane,                 \* the pane's fields
    bodyVisible,          \* the body's visibility
    tabbedViewsCreated,   \* TerminalTabbedView instances created so far
    initializeCalls,      \* calls of initializeTerminals so far
    vlast                 \* what the last step of this component did

vvars == <<isProcessSupportRegistered, terminalCount, pane, bodyVisible,
           tabbedViewsCreated, initializeCalls, vlast>>

\* The parts a component's steps leave alone.
notTabList == <<rvars, nvars, tvars, dvars, pvars, subscribed, vvars>>
notRenderer == <<vars, nvars, tvars, dvars, pvars, subscribed, vvars>>
notNotebook == <<vars, rvars, tvars, dvars, pvars, subscribed, vvars>>
notTrust == <<vars, rvars, nvars, dvars, pvars, subscribed, vvars>>
notDoubles == <<vars, rvars, nvars, tvars, pvars, subscribed, vvars>>
notProfiles == <<vars, rvars, nvars, tvars, dvars, subscribed, vvars>>
notSynchronizer == <<vars, rvars, tvars, dvars, pvars, vvars>>
notViewPane == <<vars, rvars, nvars, tvars, dvars, pvars, subscribed>>

-----------------------------------------------------------------------------
\* Helpers on sequences

Range(s) == {s[k] : k \in 1..Len(s)}

\* Array.prototype.indexOf: 0-based index of the first occurrence, -1 if absent.
IndexOf(s, e) ==
    IF \E k \in 1..Len(s) : s[k] = e
    THEN (CHOOSE k \in 1..Len(s) : s[k] = e /\ \A j \in 1..(k - 1) : s[j] # e) - 1
    ELSE -1

Rows(l) == 0..(Len(l) - 1)

\* the elements at a set of row indices
ElementsAt(l, idxs) == {l[i + 1] : i \in idxs}

\* the elements at a set of row indices, in row order (getSelectedElements)
RECURSIVE ElementsInOrder(_, _)
ElementsInOrder(l, idxs) ==
    IF idxs = {} THEN <<>>
    ELSE LET m == CHOOSE i \in idxs : \A j \in idxs : i <= j
         IN <<l[m + 1]>> \o ElementsInOrder(l, idxs \ {m})

\* Array.prototype.splice on a sequence
SeqSplice(s, start, deleteCount, elems) ==
    SubSeq(s, 1, start) \o elems \o SubSeq(s, start + deleteCount + 1, Len(s))

RemoveFrom(s, e) == SelectSeq(s, LAMBDA x : x # e)

InsertAfter(s, e, n) ==
    LET i == IndexOf(s, e) IN SeqSplice(s, i + 1, 0, <<n>>)

-----------------------------------------------------------------------------
\* The list widget (WorkbenchList), as the tab list configures it

\* A trait (selection or focus) across a splice: rows before the splice keep
\* the trait, rows after it are shifted, and an inserted element has the trait
\* iff an element with the same identity (identityProvider.getId) had it.
TraitSplice(idxs, view, start, deleteCount, elems) ==
    LET past == ElementsAt(view, idxs)
        diff == Len(elems) - deleteCount
    IN  {i \in idxs : i < start}
        \cup {start + k - 1 : k \in {j \in 1..Len(elems) : elems[j] \in past}}
        \cup {i + diff : i \in {j \in idxs : j >= start + deleteCount}}

\* List.splice(start, deleteCount, elements) on the widget w
ListSplice(w, start, deleteCount, elems) ==
    [list      |-> SeqSplice(w.list, start, deleteCount, elems),
     selection |-> TraitSplice(w.selection, w.list, start, deleteCount, elems),
     focus     |-> TraitSplice(w.focus, w.list, start, deleteCount, elems)]

\* setSelection / setFocus / reveal accept only indices of the current sequence
ValidIndex(l, i) == i \in Rows(l)

Widget == [list |-> list, selection |-> selection, focus |-> focus]

-----------------------------------------------------------------------------
\* TerminalTabList

\* render() inserting the instances in front of the old rows
render_keep(w, insts) == ListSplice(w, 0, 0, insts)

\* render() appending the instances to the old rows
render_append(w, insts) == ListSplice(w, Len(w.list), 0, insts)

\* render() leaving the last of the old rows in place
render_short(w, insts) ==
    ListSplice(w, 0, IF Len(w.list) > 1 THEN Len(w.list) - 1 ELSE Len(w.list), insts)

\* render(): this.splice(0, this.length, this._terminalService.terminalInstances)
render(w, insts) == ListSplice(w, 0, Len(w.list), insts)

\* onDidChangeSelection(e => key.set(e.elements.length === 1)): the new value
\* of the context key, e.elements being the selected elements
onDidChangeSelection(elements) == Len(elements) = 1

\* onDidChangeFocus(e => key.set(e.elements.length === 1)): the new value of
\* the context key, e.elements being the focused elements
onDidChangeFocus(elements) == Len(elements) = 1

\* the active-instance handler adding row i to the selection
selectActive_add(selected, i) == selected \cup {i}

\* onActiveInstanceChanged: this.setSelection([i]), the new selected rows
selectActive(selected, i) == {i}

\* the double-click handler without its focus test
dblClickCreates_always(focused) == TRUE

\* onMouseDblClick: if (this.getFocus().length === 0)
dblClickCreates(focused) == Cardinality(focused) = 0

\* the click handler splitting without a row under the pointer
clickSplits_noElement(alt, element) == alt

\* onMouseClick: if (e.browserEvent.altKey && e.element)
clickSplits(alt, element) == alt /\ element # None

\* the click handler focusing only when nothing is selected
clickFocuses_strict(mode, selected, element) ==
    mode = "singleClick" /\ Cardinality(selected) < 1 /\ element # None

\* onMouseClick: else if (focusMode === 'singleClick') { if
\* (this.getSelection().length <= 1) { e.element?.focus(true) } }
clickFocuses(mode, selected, element) ==
    mode = "singleClick" /\ Cardinality(selected) <= 1 /\ element # None

\* the context-menu handler moving the focus on every row
contextMenuFocuses_always(sel, element) == TRUE

\* onContextMenu: if (!selection || !selection.find(s => e.element === s))
contextMenuFocuses(sel, element) == element \notin Range(sel)

\* _runForSelectionOrInstance running the callback on the selection always
runForSelection(sel, instance) == IF sel # <<>> THEN sel ELSE <<instance>>

\* _runForSelectionOrInstance: the instances the callback is run on, given
\* the selected elements (this._getSelection()) and the row's instance
runForSelectionOrInstance(sel, instance) ==
    IF instance \in Range(sel) THEN sel ELSE <<instance>>

-----------------------------------------------------------------------------
\* Notifications of the terminal service

InstancesChanged == "instancesChanged"
TitleChanged == "instanceTitleChanged"
IconChanged == "instanceIconChanged"
PrimaryStatusChanged == "instancePrimaryStatusChanged"
ActiveInstanceChanged == "activeInstanceChanged"

RenderNotifications ==
    {InstancesChanged, TitleChanged, IconChanged, PrimaryStatusChanged}
Notifications == RenderNotifications \cup {ActiveInstanceChanged}

Notify(type, e) == [type |-> type, inst |-> e]

\* what a step did: the operation, its inputs and the calls it made (instances
\* split, disposed, focused, created, made active; the row revealed); sel and
\* prev are the selected elements and the list's sequence the step started with
Blank ==
    [op |-> "init", row |-> NoRow, inst |-> None, alt |-> FALSE, mode |-> "",
     button |-> 0,
     rendered |-> FALSE, err |-> FALSE, reveal |-> NoReveal,
     splits |-> <<>>, disposed |-> <<>>, focused |-> <<>>, created |-> <<>>,
     sel |-> <<>>, prev |-> <<>>, active |-> None]

\* the row action in progress: its kind, the row's instance, the selected
\* elements when it started, the instances still to process and those done
Idle == [running |-> FALSE, kind |-> "", inst |-> None,
         sel |-> <<>>, todo |-> <<>>, done |-> <<>>]

Quiet == pending = <<>> /\ ~run.running

Init ==
    /\ instances = <<>>
    /\ nextId = 1
    /\ list = <<>>
    /\ selection = {}
    /\ focus = {}
    /\ singleSelected = FALSE
    /\ awaiting = {}
    /\ pending = <<>>
    /\ run = Idle
    /\ last = Blank

-----------------------------------------------------------------------------
\* The terminal service acting on its own (commands, process exits, ...)

\* createTerminal() by some other caller, which may also activate it, before
\* or after it announces the changed sequence
EnvCreateTerminal ==
    /\ Quiet
    /\ nextId <= MaxInstances
    /\ instances' = Append(instances, nextId)
    /\ nextId' = nextId + 1
    /\ \E activate \in BOOLEAN :
          /\ pending' \in IF activate
                          THEN {<<Notify(InstancesChanged, None),
                                  Notify(ActiveInstanceChanged, nextId)>>,
                                <<Notify(ActiveInstanceChanged, nextId),
                                  Notify(InstancesChanged, None)>>}
                          ELSE {<<Notify(InstancesChanged, None)>>}
          /\ last' = [Blank EXCEPT !.op = "envCreate", !.created = <<nextId>>,
                                   !.active = IF activate THEN nextId ELSE None]
    /\ UNCHANGED <<list, selection, focus, singleSelected, awaiting, run>>

\* the notifications of instance x leaving the registry: instances-changed
\* and, when that makes another instance (or none) the active one,
\* active-instance-changed before or after it
DisposeNotifications(x) ==
    {<<Notify(InstancesChanged, None)>>}
    \cup UNION {{<<Notify(ActiveInstanceChanged, a), Notify(InstancesChanged, None)>>,
                 <<Notify(InstancesChanged, None), Notify(ActiveInstanceChanged, a)>>} :
                a \in IF Range(instances) \ {x} = {} THEN {None}
                      ELSE Range(instances) \ {x}}

\* instance.dispose(): the registry drops x and notifies
DisposeInstance(x) ==
    /\ instances' = RemoveFrom(instances, x)
    /\ pending' \in DisposeNotifications(x)
    /\ UNCHANGED nextId

\* a terminal's process exits
EnvDispose(x) ==
    /\ Quiet
    /\ x \in Range(instances)
    /\ DisposeInstance(x)
    /\ last' = [Blank EXCEPT !.op = "envDispose", !.inst = x, !.disposed = <<x>>]
    /\ UNCHANGED <<list, selection, focus, singleSelected, awaiting, run>>

\* setActiveInstance(e) by some other caller
EnvSetActive(e) ==
    /\ Quiet
    /\ e \in Range(instances)
    /\ pending' = <<Notify(ActiveInstanceChanged, e)>>
    /\ last' = [Blank EXCEPT !.op = "envSetActive", !.inst = e, !.active = e]
    /\ UNCHANGED <<instances, nextId, list, selection, focus, singleSelected,
                   awaiting, run>>

\* an instance's title, icon or primary status changes
EnvInstanceChanged(type, e) ==
    /\ Quiet
    /\ type \in {TitleChanged, IconChanged, PrimaryStatusChanged}
    /\ e \in Range(instances)
    /\ pending' = <<Notify(type, e)>>
    /\ last' = [Blank EXCEPT !.op = "envInstanceChanged", !.inst = e]
    /\ UNCHANGED <<instances, nextId, list, selection, focus,
                   singleSelected, awaiting, run>>

-----------------------------------------------------------------------------
\* The tab list's handlers of the service's notifications

\* the context key after a splice, which changes both traits: the selection
\* and the focus listeners both run, in an order the widget decides
KeyAfterSplice(w) ==
    {onDidChangeSelection(ElementsInOrder(w.list, w.selection)),
     onDidChangeFocus(ElementsInOrder(w.list, w.focus))}

\* () => this.render(), for the notification at the head of the queue
RenderOn(type) ==
    /\ pending # <<>>
    /\ Head(pending).type = type
    /\ LET w == render(Widget, instances)
       IN  /\ list' = w.list
           /\ selection' = w.selection
           /\ focus' = w.focus
           /\ singleSelected' \in KeyAfterSplice(w)
    /\ pending' = Tail(pending)
    /\ last' = [Blank EXCEPT !.op = type, !.inst = Head(pending).inst,
                             !.rendered = TRUE, !.prev = list,
                             !.sel = ElementsInOrder(list, selection)]
    /\ UNCHANGED <<instances, nextId, awaiting, run>>

OnInstancesChanged == RenderOn(InstancesChanged)
OnInstanceTitleChanged == RenderOn(TitleChanged)
OnInstanceIconChanged == RenderOn(IconChanged)
OnInstancePrimaryStatusChanged == RenderOn(PrimaryStatusChanged)

\* onActiveInstanceChanged(e => { if (e) { i = indexOf(e); setSelection([i]);
\* reveal(i) } }); setSelection raises on an index outside the list
OnActiveInstanceChanged ==
    /\ pending # <<>>
    /\ Head(pending).type = ActiveInstanceChanged
    /\ LET e == Head(pending).inst
           i == IndexOf(instances, e)
       IN  IF e # None /\ ValidIndex(list, i)
           THEN /\ selection' = selectActive(selection, i)
                /\ singleSelected' = onDidChangeSelection(
                        ElementsInOrder(list, selectActive(selection, i)))
                /\ last' = [Blank EXCEPT !.op = ActiveInstanceChanged,
                                         !.inst = e, !.reveal = i]
           ELSE /\ UNCHANGED <<selection, singleSelected>>
                /\ last' = [Blank EXCEPT !.op = ActiveInstanceChanged,
                                         !.inst = e, !.err = (e # None)]
    /\ pending' = Tail(pending)
    /\ UNCHANGED <<instances, nextId, list, focus, awaiting, run>>

-----------------------------------------------------------------------------
\* The user on the list

ElementAt(row) == IF row = NoRow THEN None ELSE list[row + 1]

RowsOrNone == Rows(list) \cup {NoRow}

\* the widget's own selection and focus gestures (keyboard, ctrl/shift click):
\* they set the selection, the focus (at most one row) or both, and each trait
\* that changes fires its change event
ListSelect(S, f) ==
    /\ Quiet
    /\ S \subseteq Rows(list)
    /\ f \subseteq Rows(list)
    /\ Cardinality(f) <= 1
    /\ <<S, f>> # <<selection, focus>>
    /\ selection' = S
    /\ focus' = f
    /\ singleSelected' \in
          (IF S # selection
           THEN {onDidChangeSelection(ElementsInOrder(list, S))} ELSE {})
          \cup (IF f # focus
                THEN {onDidChangeFocus(ElementsInOrder(list, f))} ELSE {})
    /\ last' = [Blank EXCEPT !.op = "listSelect"]
    /\ UNCHANGED <<instances, nextId, list, awaiting, pending, run>>

\* onMouseDblClick: with no focused row, create a terminal, make it active
\* and focus it when it is ready.  The handler takes no event argument: the
\* row under the pointer (row) plays no part.
MouseDblClick(row) ==
    /\ Quiet
    /\ row \in RowsOrNone
    /\ IF dblClickCreates(focus)
       THEN /\ nextId <= MaxInstances
            /\ instances' = Append(instances, nextId)
            /\ nextId' = nextId + 1
            /\ pending' = <<Notify(InstancesChanged, None),
                            Notify(ActiveInstanceChanged, nextId)>>
            /\ awaiting' = awaiting \cup {nextId}
            /\ last' = [Blank EXCEPT !.op = "dblclick", !.row = row,
                                     !.created = <<nextId>>, !.active = nextId]
       ELSE /\ UNCHANGED <<instances, nextId, pending, awaiting>>
            /\ last' = [Blank EXCEPT !.op = "dblclick", !.row = row]
    /\ UNCHANGED <<list, selection, focus, singleSelected, run>>

FocusModes == {"singleClick", "doubleClick"}

\* onMouseClick: Alt+click on a row splits its instance; otherwise, in the
\* single-click focus mode and with at most one row selected, the row's
\* instance (if any) is focused.  mode is the configured focus mode.  What
\* the widget itself does with the pointer event is a ListSelect step.
MouseClick(row, alt, mode) ==
    /\ Quiet
    /\ row \in RowsOrNone
    /\ mode \in FocusModes
    /\ LET element == ElementAt(row)
           rec == [Blank EXCEPT !.op = "click", !.row = row, !.inst = element,
                                !.alt = alt, !.mode = mode]
       IN  IF clickSplits(alt, element)
           THEN /\ nextId <= MaxInstances
                /\ instances' = InsertAfter(instances, element, nextId)
                /\ nextId' = nextId + 1
                /\ pending' = <<Notify(InstancesChanged, None)>>
                /\ last' = [rec EXCEPT !.splits = <<element>>,
                                       !.created = <<nextId>>]
           ELSE /\ UNCHANGED <<instances, nextId, pending>>
                /\ last' = IF clickFocuses(mode, selection, element)
                           THEN [rec EXCEPT !.focused = <<element>>]
                           ELSE rec
    /\ UNCHANGED <<list, selection, focus, singleSelected, awaiting, run>>

\* onContextMenu: on empty space clear the selection; on a row outside the
\* selection move the list focus to it
ContextMenu(row) ==
    /\ Quiet
    /\ row \in RowsOrNone
    /\ LET element == ElementAt(row)
           sel == ElementsInOrder(list, selection)
       IN  IF element = None
           THEN /\ selection' = {}
                /\ singleSelected' = onDidChangeSelection(<<>>)
                /\ UNCHANGED focus
           ELSE IF contextMenuFocuses(sel, element)
           THEN /\ focus' = {row}
                /\ singleSelected' = onDidChangeFocus(<<element>>)
                /\ UNCHANGED selection
           ELSE UNCHANGED <<selection, focus, singleSelected>>
    /\ last' = [Blank EXCEPT !.op = "contextMenu", !.row = row,
                             !.inst = ElementAt(row)]
    /\ UNCHANGED <<instances, nextId, list, awaiting, pending, run>>

\* Mouse buttons of an auxclick event: 1 is the middle button.
MiddleButton == 1
AuxButtons == {MiddleButton, 2}

auxClickDisposes_selection(button, instance) ==
    IF button = MiddleButton
    THEN runForSelection(ElementsInOrder(list, selection), instance) ELSE <<>>

\* the auxclick listener renderElement binds to a row: the instances it
\* disposes, the row's own instance on the middle button and nothing else
auxClickDisposes(button, instance) ==
    IF button = MiddleButton THEN <<instance>> ELSE <<>>

\* an auxclick on a rendered row: the listener bound to the row's instance
\* runs; dispose() of an instance that already left the registry does nothing
MouseAuxClick(row, button) ==
    /\ Quiet
    /\ row \in Rows(list)
    /\ LET targets == auxClickDisposes(button, ElementAt(row))
           gone == SelectSeq(targets, LAMBDA x : x \in Range(instances))
       IN  /\ IF gone = <<>>
              THEN UNCHANGED <<instances, nextId, pending>>
              ELSE /\ instances' = SelectSeq(instances,
                                        LAMBDA x : x \notin Range(gone))
                   /\ pending' \in DisposeNotifications(gone[1])
                   /\ UNCHANGED nextId
           /\ last' = [Blank EXCEPT !.op = "auxClick", !.row = row,
                                    !.button = button, !.inst = ElementAt(row),
                                    !.disposed = gone,
                                    !.sel = ElementsInOrder(list, selection),
                                    !.prev = list]
    /\ UNCHANGED <<list, selection, focus, singleSelected, awaiting, run>>

\* the continuation of focusWhenReady(): the instance takes the focus; for an
\* instance disposed in the meantime nothing happens
InstanceReady(e) ==
    /\ Quiet
    /\ e \in awaiting
    /\ awaiting' = awaiting \ {e}
    /\ last' = [Blank EXCEPT !.op = "ready", !.inst = e,
                             !.focused = IF e \in Range(instances)
                                         THEN <<e>> ELSE <<>>]
    /\ UNCHANGED <<instances, nextId, list, selection, focus,
                   singleSelected, pending, run>>

-----------------------------------------------------------------------------
\* The split and kill actions of a row's action bar (fillActionBar); both run
\* _runForSelectionOrInstance, one callback at a time, each callback's
\* notifications being delivered before the next callback runs

RowActionKinds == {"split", "kill"}

\* the action of kind `kind` of the row showing instance x is run
RowActionStart(kind, x) ==
    /\ Quiet
    /\ kind \in RowActionKinds
    /\ x \in Range(list)
    /\ LET sel == ElementsInOrder(list, selection)
           todo == runForSelectionOrInstance(sel, x)
       IN  /\ kind = "split" => nextId + Len(todo) - 1 <= MaxInstances
           /\ run' = [running |-> TRUE, kind |-> kind, inst |-> x, sel |-> sel,
                      todo |-> todo, done |-> <<>>]
    /\ last' = [Blank EXCEPT !.op = "rowAction", !.inst = x, !.mode = kind]
    /\ UNCHANGED <<instances, nextId, list, selection, focus, singleSelected,
                   awaiting, pending>>

\* callback(s) for the next instance s: splitInstance(s) or s.dispose()
RowActionStep ==
    /\ run.running
    /\ pending = <<>>
    /\ run.todo # <<>>
    /\ LET s == Head(run.todo)
       IN  /\ IF run.kind = "split"
              THEN /\ instances' = InsertAfter(instances, s, nextId)
                   /\ nextId' = nextId + 1
                   /\ pending' = <<Notify(InstancesChanged, None)>>
                   /\ last' = [Blank EXCEPT !.op = "rowActionStep", !.inst = s,
                                            !.mode = run.kind,
                                            !.splits = <<s>>,
                                            !.created = <<nextId>>]
              ELSE /\ DisposeInstance(s)
                   /\ last' = [Blank EXCEPT !.op = "rowActionStep", !.inst = s,
                                            !.mode = run.kind,
                                            !.disposed = <<s>>]
           /\ run' = [run EXCEPT !.todo = Tail(run.todo),
                                 !.done = Append(run.done, s)]
    /\ UNCHANGED <<list, selection, focus, singleSelected, awaiting>>

\* List.focusNext(): the focus moves to the row after the first focused one
\* (row 0 when none is focused), if there is such a row
FocusNextRow == IF focus = {} THEN 0
                ELSE (CHOOSE i \in focus : \A j \in focus : i <= j) + 1

\* after the callbacks: focusTabs() and lastFocusedList?.focusNext(), the
\* last focused list being the tab list (onTabs) or some other list
RowActionFinish ==
    /\ run.running
    /\ pending = <<>>
    /\ run.todo = <<>>
    /\ \E onTabs \in BOOLEAN :
          IF onTabs /\ ValidIndex(list, FocusNextRow)
          THEN /\ focus' = {FocusNextRow}
               /\ singleSelected' = onDidChangeFocus(<<list[FocusNextRow + 1]>>)
          ELSE UNCHANGED <<focus, singleSelected>>
    /\ run' = Idle
    /\ last' = [Blank EXCEPT !.op = "rowActionDone", !.inst = run.inst,
                             !.mode = run.kind, !.sel = run.sel,
                             !.splits = IF run.kind = "split" THEN run.done ELSE <<>>,
                             !.disposed = IF run.kind = "kill" THEN run.done ELSE <<>>]
    /\ UNCHANGED <<instances, nextId, list, selection, awaiting, pending>>

Next ==
    \/ EnvCreateTerminal /\ UNCHANGED notTabList
    \/ \E x \in InstanceIds : EnvDispose(x) /\ UNCHANGED notTabList
    \/ \E e \in InstanceIds : EnvSetActive(e) /\ UNCHANGED notTabList
    \/ \E t \in RenderNotifications, e \in InstanceIds : EnvInstanceChanged(t, e)
          /\ UNCHANGED notTabList
    \/ OnInstancesChanged /\ UNCHANGED notTabList
    \/ OnInstanceTitleChanged /\ UNCHANGED notTabList
    \/ OnInstanceIconChanged /\ UNCHANGED notTabList
    \/ OnInstancePrimaryStatusChanged /\ UNCHANGED notTabList
    \/ OnActiveInstanceChanged /\ UNCHANGED notTabList
    \/ \E row \in RowsOrNone : ContextMenu(row) /\ UNCHANGED notTabList
    \/ \E row \in RowsOrNone : MouseDblClick(row) /\ UNCHANGED notTabList
    \/ \E row \in RowsOrNone, alt \in BOOLEAN, mode \in FocusModes :
          MouseClick(row, alt, mode) /\ UNCHANGED notTabList
    \/ \E S \in SUBSET Rows(list), f \in SUBSET Rows(list) : ListSelect(S, f)
          /\ UNCHANGED notTabList
    \/ \E row \in RowsOrNone, button \in AuxButtons : MouseAuxClick(row, button)
          /\ UNCHANGED notTabList
    \/ \E e \in InstanceIds : InstanceReady(e) /\ UNCHANGED notTabList
    \/ \E kind \in RowActionKinds, x \in InstanceIds : RowActionStart(kind, x)
          /\ UNCHANGED notTabList
    \/ RowActionStep /\ UNCHANGED notTabList
    \/ RowActionFinish /\ UNCHANGED notTabList

-----------------------------------------------------------------------------
\* The row renderer (TerminalTabsRenderer) and the rows of the list widget
\* that calls it.  The terminal service's groups and the list widget's row
\* cache are collaborators outside the excerpt.

\* Number of terminals the service creates over a run of the renderer (ids
\* are 1..MaxTerminals and are never reused).
MaxTerminals == 3

TerminalIds == 1..MaxTerminals

MIN_TABS_WIDGET_WIDTH == 46
DEFAULT_TABS_WIDGET_WIDTH == 80
MIDPOINT_WIDGET_WIDTH ==
    (MIN_TABS_WIDGET_WIDTH + DEFAULT_TABS_WIDGET_WIDTH) \div 2
THRESHOLD_ACTIONBAR_WIDTH == 105

\* The container widths tried: the last width on each side of each threshold.
Widths == {MIDPOINT_WIDGET_WIDTH - 1, MIDPOINT_WIDGET_WIDTH,
           THRESHOLD_ACTIONBAR_WIDTH, THRESHOLD_ACTIONBAR_WIDTH + 1}

Undefined == "undefined"

Severity == [Ignore |-> 0, Info |-> 1, Warning |-> 2, Error |-> 3]

\* The split-position glyphs (box-drawing characters in the source).
PrefixFirst == ".- "
PrefixLast == "+- "
PrefixMiddle == "|- "
NoPrefix == ""

\* What a terminal is created with: its icon id (or none) and its status
\* list; a status has an id, a severity, and optionally an icon, a tooltip
\* and hover actions.
Profiles ==
    << [icon |-> "terminal", statuses |-> <<>>],
       [icon |-> "terminal",
        statuses |-> << [id |-> "bell", severity |-> Severity.Info,
                         icon |-> "bell", tooltip |-> "Bell",
                         hoverActions |-> <<"configure">>],
                        [id |-> "relaunch-needed",
                         severity |-> Severity.Warning,
                         icon |-> "warning", tooltip |-> Undefined,
                         hoverActions |-> <<"relaunch">>] >>],
       [icon |-> Undefined, statuses |-> <<>>],
       [icon |-> "terminal",
        statuses |-> << [id |-> "disconnected", severity |-> Severity.Error,
                         icon |-> Undefined, tooltip |-> "Lost connection",
                         hoverActions |-> <<>>] >>],
       [icon |-> "terminal",
        statuses |-> << [id |-> "bell", severity |-> Severity.Info,
                         icon |-> "bell", tooltip |-> "Bell",
                         hoverActions |-> <<"configure">>] >>] >>

\* instance.title and instance.shellLaunchConfig.description
Title(instance) == "title" \o ToString(instance)
Description(instance) == "description" \o ToString(instance)

\* ITerminalService.terminalInstances: the groups' instances, in order.
RECURSIVE Flatten(_)
Flatten(groups) ==
    IF groups = <<>> THEN <<>> ELSE Head(groups) \o Flatten(Tail(groups))

\* ITerminalService.getGroupForInstance: the group's position, None if the
\* instance is in no group.
getGroupForInstance(instance) ==
    IF \E g \in 1..Len(terminalGroups) : instance \in Range(terminalGroups[g])
    THEN CHOOSE g \in 1..Len(terminalGroups) :
             instance \in Range(terminalGroups[g])
    ELSE None

\* ITerminalStatusList.primary: the most severe status, the later one of
\* equally severe ones; an empty sequence if there is no status.
RECURSIVE Primary(_)
Primary(statuses) ==
    IF Len(statuses) <= 1 THEN statuses
    ELSE LET rest == Primary(Tail(statuses))
         IN  IF rest[1].severity >= Head(statuses).severity
             THEN rest ELSE <<Head(statuses)>>

\* renderTemplate: a new template; nothing is rendered in it, its context
\* has no hover actions, its action bar is empty and it has no store of
\* element disposables.
renderTemplate ==
    [hasText |-> FALSE, name |-> <<>>, description |-> Undefined,
     badges |-> FALSE, title |-> "", hoverActions |-> <<>>,
     actionBar |-> <<>>,
     elementDispoables |-> [store |-> FALSE, listeners |-> <<>>]]

shouldHideText == clientWidth < MIDPOINT_WIDGET_WIDTH

shouldHideActionBar_below == clientWidth < THRESHOLD_ACTIONBAR_WIDTH

shouldHideActionBar == clientWidth <= THRESHOLD_ACTIONBAR_WIDTH

\* renderElement, lines 223-233: the split-position prefix.
splitPrefix_lastIsLength(instance) ==
    LET group == terminalGroups[getGroupForInstance(instance)]
        terminalIndex == IndexOf(group, instance)
    IN  IF Len(group) > 1
        THEN IF terminalIndex = 0 THEN PrefixFirst
             ELSE IF terminalIndex = Len(group) THEN PrefixLast
             ELSE PrefixMiddle
        ELSE NoPrefix

splitPrefix(instance) ==
    LET group == terminalGroups[getGroupForInstance(instance)]
        terminalIndex == IndexOf(group, instance)
    IN  IF Len(group) > 1
        THEN IF terminalIndex = 0 THEN PrefixFirst
             ELSE IF terminalIndex = Len(group) - 1 THEN PrefixLast
             ELSE PrefixMiddle
        ELSE NoPrefix

\* renderElement, lines 235-243: the tooltip text.
RECURSIVE tooltipTitle_tooltipOnly(_, _)
tooltipTitle_tooltipOnly(title, statuses) ==
    IF statuses = <<>> THEN title
    ELSE tooltipTitle_tooltipOnly(
             title \o "\n\n---\n\n" \o Head(statuses).tooltip,
             Tail(statuses))

RECURSIVE tooltipTitle(_, _)
tooltipTitle(title, statuses) ==
    IF statuses = <<>> THEN title
    ELSE LET status == Head(statuses)
         IN  tooltipTitle(
                 title \o "\n\n---\n\n" \o
                     (IF status.tooltip # Undefined THEN status.tooltip
                      ELSE status.id),
                 Tail(statuses))

\* renderElement, lines 237-243: the hover actions, pushed onto `actions`.
RECURSIVE pushHoverActions(_, _)
pushHoverActions(actions, statuses) ==
    IF statuses = <<>> THEN actions
    ELSE pushHoverActions(actions \o Head(statuses).hoverActions,
                          Tail(statuses))

fillActionBar_push(instance, template) ==
    [template EXCEPT !.actionBar =
        @ \o << [id |-> "SplitInstance", instance |-> instance],
                [id |-> "KillInstance", instance |-> instance] >>]

\* fillActionBar: the bar is cleared, then Split and Kill for the instance
\* are pushed.
fillActionBar(instance, template) ==
    [template EXCEPT !.actionBar =
        << [id |-> "SplitInstance", instance |-> instance],
           [id |-> "KillInstance", instance |-> instance] >>]

\* renderElement, lines 246-262: the label, as its pieces in order: prefix,
\* icon glyph, and the title when it is appended.
iconLabel_anySeverity(instance, hasText) ==
    LET icon == terminal[instance].icon
        primaryStatus == Primary(terminal[instance].statuses)
    IN  IF ~hasText
        THEN IF primaryStatus # <<>>
             THEN << "$(" \o (IF primaryStatus[1].icon # Undefined
                              THEN primaryStatus[1].icon ELSE icon) \o ")" >>
             ELSE << "$(" \o icon \o ")" >>
        ELSE << "$(" \o icon \o ")" >>
             \o (IF icon # Undefined THEN << " " \o Title(instance) >>
                 ELSE <<>>)

iconLabel_titleAlways(instance, hasText) ==
    LET icon == terminal[instance].icon
        primaryStatus == Primary(terminal[instance].statuses)
    IN  IF ~hasText
        THEN IF primaryStatus # <<>>
                /\ primaryStatus[1].severity >= Severity.Warning
             THEN << "$(" \o (IF primaryStatus[1].icon # Undefined
                              THEN primaryStatus[1].icon ELSE icon) \o ")" >>
             ELSE << "$(" \o icon \o ")" >>
        ELSE << "$(" \o icon \o ")", " " \o Title(instance) >>

iconLabel(instance, hasText) ==
    LET icon == terminal[instance].icon
        primaryStatus == Primary(terminal[instance].statuses)
    IN  IF ~hasText
        THEN IF primaryStatus # <<>>
                /\ primaryStatus[1].severity >= Severity.Warning
             THEN << "$(" \o (IF primaryStatus[1].icon # Undefined
                              THEN primaryStatus[1].icon ELSE icon) \o ")" >>
             ELSE << "$(" \o icon \o ")" >>
        ELSE << "$(" \o icon \o ")" >>
             \o (IF icon # Undefined THEN << " " \o Title(instance) >>
                 ELSE <<>>)

\* renderElement, lines 267-276: the middle-click listener is added to the
\* template's store of element disposables, which is created if missing.
addAuxClickListener(instance, template) ==
    [template EXCEPT !.elementDispoables =
        [store |-> TRUE, listeners |-> Append(@.listeners, instance)]]

\* renderElement(instance, index, template): the template afterwards.  With
\* no group for the instance it throws before touching the template.
renderElement_appendHover(instance, index, template) ==
    IF getGroupForInstance(instance) = None THEN template
    ELSE
    LET hasText == ~shouldHideText
        hasActionbar == ~shouldHideActionBar
        statuses == terminal[instance].statuses
        t1 == [template EXCEPT
                 !.hasText = hasText,
                 !.hoverActions = pushHoverActions(@, statuses)]
        t2 == IF hasText THEN fillActionBar(instance, t1) ELSE t1
        t3 == IF ~hasActionbar THEN [t2 EXCEPT !.actionBar = <<>>] ELSE t2
        t4 == addAuxClickListener(instance, t3)
    IN  [t4 EXCEPT
           !.name = <<splitPrefix(instance)>> \o iconLabel(instance, hasText),
           !.description = IF hasText THEN Description(instance)
                           ELSE Undefined,
           !.badges = hasText,
           !.title = tooltipTitle(Title(instance), statuses)]

renderElement(instance, index, template) ==
    IF getGroupForInstance(instance) = None THEN template
    ELSE
    LET hasText == ~shouldHideText
        hasActionbar == ~shouldHideActionBar
        statuses == terminal[instance].statuses
        t1 == [template EXCEPT
                 !.hasText = hasText,
                 !.hoverActions = pushHoverActions(<<>>, statuses)]
        t2 == IF hasText THEN fillActionBar(instance, t1) ELSE t1
        t3 == IF ~hasActionbar THEN [t2 EXCEPT !.actionBar = <<>>] ELSE t2
        t4 == addAuxClickListener(instance, t3)
    IN  [t4 EXCEPT
           !.name = <<splitPrefix(instance)>> \o iconLabel(instance, hasText),
           !.description = IF hasText THEN Description(instance)
                           ELSE Undefined,
           !.badges = hasText,
           !.title = tooltipTitle(Title(instance), statuses)]

\* disposeElement: the store of element disposables is disposed, which
\* removes its listeners, and the template is left without a store.
disposeElement_keep(instance, index, templateData) == templateData

disposeElement(instance, index, templateData) ==
    [templateData EXCEPT
        !.elementDispoables = [store |-> FALSE, listeners |-> <<>>]]

\* What the last renderer step did, if it was an auxclick: the row, its
\* element, the mouse button, and the instances the listeners called
\* dispose() on, in call order.
RBlank == [op |-> "", row |-> NoRow, button |-> 0, element |-> None,
           disposed |-> <<>>, threw |-> FALSE]

InitRenderer ==
    /\ clientWidth = DEFAULT_TABS_WIDGET_WIDTH
    /\ terminalGroups = <<>>
    /\ terminal = <<>>
    /\ rows = <<>>
    /\ cache = <<>>
    /\ renderDue = FALSE
    /\ rlast = RBlank

NewTerminal(p) == [icon |-> p.icon, statuses |-> p.statuses, disposed |-> 0]

\* The profiles a new terminal may have: the terminals take the profiles in
\* turn.
NewProfiles == {Profiles[(Len(terminal) % Len(Profiles)) + 1]}

\* The service creates a terminal in a group of its own and announces it.
RCreateTerminal(p) ==
    /\ ~renderDue
    /\ Len(terminal) < MaxTerminals
    /\ terminal' = Append(terminal, NewTerminal(p))
    /\ terminalGroups' = Append(terminalGroups, <<Len(terminal) + 1>>)
    /\ renderDue' = TRUE
    /\ rlast' = RBlank
    /\ UNCHANGED <<clientWidth, rows, cache>>

\* The service splits instance x: the new terminal joins x's group right
\* after x.
RSplitTerminal(x, p) ==
    /\ ~renderDue
    /\ Len(terminal) < MaxTerminals
    /\ getGroupForInstance(x) # None
    /\ terminal' = Append(terminal, NewTerminal(p))
    /\ terminalGroups' =
         [terminalGroups EXCEPT ![getGroupForInstance(x)] =
             InsertAfter(@, x, Len(terminal) + 1)]
    /\ renderDue' = TRUE
    /\ rlast' = RBlank
    /\ UNCHANGED <<clientWidth, rows, cache>>

\* The groups once instance x has left the service: x is taken out of its
\* group and a group left empty is dropped.
RECURSIVE WithoutInstance(_, _)
WithoutInstance(groups, x) ==
    IF groups = <<>> THEN <<>>
    ELSE LET g == RemoveFrom(Head(groups), x)
         IN  (IF g = <<>> THEN <<>> ELSE <<g>>)
             \o WithoutInstance(Tail(groups), x)

\* instance.dispose() called on each of `targets` in turn: the call is
\* counted, the service drops the instance, and the instance's icon and
\* statuses are gone with it.
RECURSIVE DisposeCalls(_, _, _)
DisposeCalls(targets, terminals, groups) ==
    IF targets = <<>> THEN [terminal |-> terminals, groups |-> groups]
    ELSE LET x == Head(targets)
         IN  DisposeCalls(Tail(targets),
                          [terminals EXCEPT ![x] =
                              [icon |-> Undefined, statuses |-> <<>>,
                               disposed |-> @.disposed + 1]],
                          WithoutInstance(groups, x))

\* A terminal is disposed of from elsewhere (its process exits, a command).
RDisposeTerminal(x) ==
    /\ ~renderDue
    /\ getGroupForInstance(x) # None
    /\ LET after == DisposeCalls(<<x>>, terminal, terminalGroups)
       IN  /\ terminal' = after.terminal
           /\ terminalGroups' = after.groups
    /\ renderDue' = TRUE
    /\ rlast' = RBlank
    /\ UNCHANGED <<clientWidth, rows, cache>>

\* The container is resized; the view lays the list out again, which
\* renders it.
Resize(w) ==
    /\ ~renderDue
    /\ w # clientWidth
    /\ clientWidth' = w
    /\ renderDue' = TRUE
    /\ rlast' = RBlank
    /\ UNCHANGED <<terminalGroups, terminal, rows, cache>>

\* An auxclick on a row's element: every listener the row's template holds
\* runs (lines 272-276) and disposes its instance if the button is the
\* middle one.
AuxClick(row, button) ==
    /\ ~renderDue
    /\ row \in Rows(rows)
    /\ LET listeners == rows[row + 1].template.elementDispoables.listeners
           targets == IF button = MiddleButton THEN listeners ELSE <<>>
           after == DisposeCalls(targets, terminal, terminalGroups)
       IN  /\ terminal' = after.terminal
           /\ terminalGroups' = after.groups
           /\ renderDue' = (after.groups # terminalGroups)
           /\ rlast' = [RBlank EXCEPT !.op = "auxclick", !.row = row,
                                      !.button = button,
                                      !.element = rows[row + 1].element,
                                      !.disposed = targets]
    /\ UNCHANGED <<clientWidth, rows, cache>>

\* The list widget renders `elements` from position i on: each row takes the
\* template released last (a new one if none is left) and the renderer fills
\* it.  A row records the element its template showed before (None for a
\* new template).
RECURSIVE RenderRows(_, _, _, _)
RenderRows(elements, i, done, free) ==
    IF i > Len(elements) THEN [rows |-> done, cache |-> free]
    ELSE LET slot == IF free = <<>>
                     THEN [template |-> renderTemplate, element |-> None]
                     ELSE free[Len(free)]
             rest == IF free = <<>> THEN <<>>
                     ELSE SubSeq(free, 1, Len(free) - 1)
         IN  RenderRows(elements, i + 1,
                        Append(done,
                               [element |-> elements[i],
                                template |-> renderElement(elements[i], i - 1,
                                                           slot.template),
                                previous |-> slot.element]),
                        rest)

\* A template in the row cache.  Its label is not kept: setResource (lines
\* 278-291) replaces a label's name, description, decorations and title as
\* a whole.  The has-text class, the hover actions, the action bar and the
\* element disposables stay as they were left.
Released(template) ==
    [template EXCEPT !.name = renderTemplate.name,
                     !.description = renderTemplate.description,
                     !.badges = renderTemplate.badges,
                     !.title = renderTemplate.title]

\* The list widget's splice(0, length, elements): every rendered row is
\* released through disposeElement, then the new rows are rendered.
RowsSplice(elements) ==
    LET released == [k \in 1..Len(rows) |->
                        [template |->
                             Released(disposeElement(rows[k].element, k - 1,
                                                     rows[k].template)),
                         element |-> rows[k].element]]
    IN  RenderRows(elements, 1, <<>>, cache \o released)

\* TerminalTabList.render(), called for the notification being delivered.
ListRender ==
    /\ renderDue
    /\ LET after == RowsSplice(Flatten(terminalGroups))
       IN  /\ rows' = after.rows
           /\ cache' = after.cache
    /\ renderDue' = FALSE
    /\ rlast' = RBlank
    /\ UNCHANGED <<clientWidth, terminalGroups, terminal>>

NextRenderer ==
    \/ \E p \in NewProfiles : RCreateTerminal(p) /\ UNCHANGED notRenderer
    \/ \E x \in TerminalIds, p \in NewProfiles :
          RSplitTerminal(x, p) /\ UNCHANGED notRenderer
    \/ \E x \in TerminalIds : RDisposeTerminal(x) /\ UNCHANGED notRenderer
    \/ \E w \in Widths : Resize(w) /\ UNCHANGED notRenderer
    \/ \E row \in Rows(rows), button \in AuxButtons :
          AuxClick(row, button) /\ UNCHANGED notRenderer
    \/ ListRender /\ UNCHANGED notRenderer

\* renderElement, lines 215-218: the call throws "Could not find group for
\* instance".
renderElementThrows_never(instance) == FALSE

renderElementThrows(instance) == getGroupForInstance(instance) = None

\* A service and a container for single calls of renderElement: one group
\* of up to MaxTerminals terminals created in turn, one of them with any of
\* the profiles and the others with the first; the last terminal may have
\* been disposed of, and is then in no group.
InitArranged ==
    \E n \in 1..MaxTerminals, k \in 1..MaxTerminals, p \in Range(Profiles),
       w \in Widths, gone \in BOOLEAN :
        LET live == IF gone THEN n - 1 ELSE n
        IN  /\ k <= n
            /\ terminal =
                 [x \in 1..n |->
                     IF x > live
                     THEN [icon |-> Undefined, statuses |-> <<>>,
                           disposed |-> 1]
                     ELSE NewTerminal(IF x = k THEN p ELSE Profiles[1])]
            /\ terminalGroups =
                 IF live = 0 THEN <<>> ELSE << [x \in 1..live |-> x] >>
            /\ clientWidth = w
            /\ rows = <<>>
            /\ cache = <<>>
            /\ renderDue = FALSE
            /\ rlast = RBlank

\* The list widget calls renderElement for one row, with a new template or
\* with the template of its last call, released through disposeElement.  The
\* instance is any terminal the list may still hold, one that has left the
\* service included.
RenderElementCall(instance, fresh) ==
    /\ instance \in 1..Len(terminal)
    /\ LET new == fresh \/ rows = <<>>
           handed == IF new THEN renderTemplate
                     ELSE disposeElement(rows[1].element, 0,
                                         rows[1].template)
       IN  rows' = << [element |-> instance,
                       template |-> renderElement(instance, 0, handed),
                       previous |-> IF new THEN None ELSE rows[1].element] >>
    /\ rlast' = [RBlank EXCEPT !.op = "renderElement",
                               !.element = instance,
                               !.threw = renderElementThrows(instance)]
    /\ UNCHANGED <<clientWidth, terminalGroups, terminal, cache, renderDue>>

NextLabels ==
    \E x \in TerminalIds, fresh \in BOOLEAN :
        RenderElementCall(x, fresh) /\ UNCHANGED notRenderer

-----------------------------------------------------------------------------
\* The notebook editor's context keys (NotebookEditorContextKeys).  The
\* editor, its view models, the cells and the kernel service are
\* collaborators outside the excerpt.

\* Number of cells created over a run (cell ids are 1..MaxCells and are never
\* reused), and the range the execution counter is followed in.
MaxCells == 2
MaxCount == 2

CellIds == 1..MaxCells

NoDoc == 0
Docs == {1, 2}
Kernels == {1, 2}

NotebookCellExecutionState ==
    [Idle |-> "Idle", Pending |-> "Pending", Executing |-> "Executing"]

RunStates == {NotebookCellExecutionState.Idle,
              NotebookCellExecutionState.Pending,
              NotebookCellExecutionState.Executing}

\* viewModel.viewType of a document
ViewType(d) == "viewType" \o ToString(d)

\* The first kernel suits every document and implements interrupt; the
\* second suits the second document only and does not.
Matches(k, d) == k <= d
implementsInterrupt(k) == k = 1

\* INotebookKernelService.getMatchingKernel(document)
getMatchingKernel(d, registered, bound) ==
    [all |-> {k \in registered : Matches(k, d)},
     selected |-> IF bound[d] \in registered THEN bound[d] ELSE None]

\* The context keys' default values, which reset() restores.
KeyDefaults ==
    [kernelCount |-> 0, kernelSelected |-> FALSE, interruptible |-> FALSE,
     someCellRunning |-> FALSE, viewType |-> Undefined]

\* _updateKernelContext, for the editor's document d.
updateKernelContext_anyInterrupt(k, d, registered, bound) ==
    IF d = NoDoc
    THEN [k EXCEPT !.kernelCount = KeyDefaults.kernelCount,
                   !.interruptible = KeyDefaults.interruptible]
    ELSE LET match == getMatchingKernel(d, registered, bound)
         IN  [k EXCEPT
                !.kernelCount = Cardinality(match.all),
                !.interruptible = \E a \in match.all : implementsInterrupt(a),
                !.kernelSelected = match.selected # None]

updateKernelContext(k, d, registered, bound) ==
    IF d = NoDoc
    THEN [k EXCEPT !.kernelCount = KeyDefaults.kernelCount,
                   !.interruptible = KeyDefaults.interruptible]
    ELSE LET match == getMatchingKernel(d, registered, bound)
         IN  [k EXCEPT
                !.kernelCount = Cardinality(match.all),
                !.interruptible = IF match.selected # None
                                  THEN implementsInterrupt(match.selected)
                                  ELSE FALSE,
                !.kernelSelected = match.selected # None]

\* dispose(listeners): each listener is taken off its cell.
RECURSIVE DisposeListeners(_, _)
DisposeListeners(live, listeners) ==
    IF listeners = <<>> THEN live
    ELSE DisposeListeners([live EXCEPT ![Head(listeners)] = @ - 1],
                          Tail(listeners))

\* cells.map(addCellStateListener): each cell gets one more listener.
RECURSIVE AddListeners(_, _)
AddListeners(live, cells) ==
    IF cells = <<>> THEN live
    ELSE AddListeners([live EXCEPT ![Head(cells)] = @ + 1], Tail(cells))

Min(a, b) == IF a <= b THEN a ELSE b

\* Array.prototype.splice(start, deleteCount, ...items) with its clamping of
\* start and deleteCount: the array afterwards and the elements removed.
ArraySplice(s, start, deleteCount, items) ==
    LET from == Min(start, Len(s))
        count == Min(deleteCount, Len(s) - from)
    IN  [array |-> SubSeq(s, 1, from) \o items
                   \o SubSeq(s, from + count + 1, Len(s)),
         deleted |-> SubSeq(s, from + 1, from + count)]

Reverse(s) == [k \in 1..Len(s) |-> s[Len(s) + 1 - k]]

\* The onDidChangeViewCells listener's forEach (lines 82-86) over `splices`
\* in the order given: each splice [start, deleted, newCells] puts the new
\* cells' listeners in place of the deleted ones, which are disposed.
RECURSIVE SpliceListeners(_, _, _)
SpliceListeners(listeners, live, splices) ==
    IF splices = <<>> THEN [listeners |-> listeners, live |-> live]
    ELSE LET splice == Head(splices)
             after == ArraySplice(listeners, splice[1], splice[2], splice[3])
         IN  SpliceListeners(after.array,
                             DisposeListeners(AddListeners(live, splice[3]),
                                              after.deleted),
                             Tail(splices))

\* The onDidChangeViewCells listener (lines 81-87): e.splices.reverse(),
\* then the forEach.
onDidChangeViewCells_forward(listeners, live, splices) ==
    SpliceListeners(listeners, live, splices)

onDidChangeViewCells(listeners, live, splices) ==
    SpliceListeners(listeners, live, Reverse(splices))

\* A cell state listener (lines 65-75) run for cell c: the counter afterwards.
cellStateListener(count, c, runStateChanged, states) ==
    IF ~runStateChanged THEN count
    ELSE IF states[c] = NotebookCellExecutionState.Pending THEN count + 1
    ELSE IF states[c] = NotebookCellExecutionState.Idle THEN count - 1
    ELSE count

\* What the last step of this component did: the operation and, for a change
\* of the view cells, the document and the number of splices of the event.
NBlank == [op |-> "", doc |-> NoDoc, splices |-> 0]

InitNotebook ==
    /\ viewCells = [d \in Docs |-> <<>>]
    /\ runState = <<>>
    /\ editorDoc = NoDoc
    /\ kernels = {}
    /\ binding = [d \in Docs |-> None]
    /\ keys = KeyDefaults
    /\ cellStateListeners = <<>>
    /\ liveListeners = [c \in CellIds |-> 0]
    /\ viewCellsListener = NoDoc
    /\ executionCount = 0
    /\ nlast = NBlank
    /\ subscribed = TRUE

\* The editor's document becomes d (NoDoc: the editor is left without one)
\* and onDidChangeModel runs _handleDidChangeModel (lines 53-93).  Without a
\* document the handler returns before a counter is declared; no listener
\* is left to read the old one.
SetModel(d) ==
    /\ d # editorDoc
    /\ editorDoc' = d
    /\ LET updated == updateKernelContext(keys, d, kernels, binding)
           disposed == DisposeListeners(liveListeners, cellStateListeners)
       IN  IF d = NoDoc
           THEN /\ keys' = updated
                /\ liveListeners' = disposed
                /\ cellStateListeners' = <<>>
           ELSE /\ keys' = [updated EXCEPT !.viewType = ViewType(d)]
                /\ liveListeners' = AddListeners(disposed, viewCells[d])
                /\ cellStateListeners' = viewCells[d]
    /\ viewCellsListener' = d
    /\ executionCount' = 0
    /\ nlast' = [NBlank EXCEPT !.op = "changeModel"]
    /\ UNCHANGED <<viewCells, runState, kernels, binding>>

\* One splice of a change of n cells, as [start, deleted, number of new cells].
SpliceShapes(n) ==
    {sh \in (0..n) \X (0..n) \X (0..1) :
        sh[1] + sh[2] <= n /\ sh[2] + sh[3] > 0}

\* The events a view model of n cells can send when `free` more cells can be
\* created: one splice, or two splices of disjoint ranges in ascending
\* order, positions being those before the change.
SpliceEvents(n, free) ==
    {<<sh>> : sh \in {x \in SpliceShapes(n) : x[3] <= free}}
    \cup {e \in SpliceShapes(n) \X SpliceShapes(n) :
             /\ e[2][1] > e[1][1]
             /\ e[2][1] >= e[1][1] + e[1][2]
             /\ e[1][3] + e[2][3] <= free}

\* The event's splices with their new cells, which take the next cell ids.
RECURSIVE WithNewCells(_, _)
WithNewCells(event, next) ==
    IF event = <<>> THEN <<>>
    ELSE LET sh == Head(event)
         IN  << <<sh[1], sh[2], [k \in 1..sh[3] |-> next + k - 1]>> >>
             \o WithNewCells(Tail(event), next + sh[3])

\* The view model applies the splices to its cells from the last to the
\* first.
RECURSIVE ApplySplices(_, _)
ApplySplices(cells, splices) ==
    IF splices = <<>> THEN cells
    ELSE LET splice == splices[Len(splices)]
         IN  ApplySplices(
                 ArraySplice(cells, splice[1], splice[2], splice[3]).array,
                 SubSeq(splices, 1, Len(splices) - 1))

RECURSIVE NewCellCount(_)
NewCellCount(event) ==
    IF event = <<>> THEN 0 ELSE Head(event)[3] + NewCellCount(Tail(event))

\* The cells of document d change; new cells are idle.  The listener of
\* lines 81-87 runs if it is subscribed to d's view model.
CellsChanged(d, event) ==
    /\ LET splices == WithNewCells(event, Len(runState) + 1)
           after == onDidChangeViewCells(cellStateListeners, liveListeners,
                                         splices)
       IN  /\ viewCells' = [viewCells EXCEPT ![d] = ApplySplices(@, splices)]
           /\ runState' = runState \o
                  [k \in 1..NewCellCount(event) |->
                      NotebookCellExecutionState.Idle]
           /\ IF viewCellsListener = d
              THEN /\ cellStateListeners' = after.listeners
                   /\ liveListeners' = after.live
              ELSE UNCHANGED <<cellStateListeners, liveListeners>>
    /\ nlast' = [NBlank EXCEPT !.op = "viewCells", !.doc = d,
                             !.splices = Len(event)]
    /\ UNCHANGED <<editorDoc, kernels, binding, keys, viewCellsListener,
                   executionCount>>

\* Cell c being in some document.
CellInUse(c) == \E d \in Docs : c \in Range(viewCells[d])

\* n listeners of cell c run in turn.
RECURSIVE RunListeners(_, _, _, _, _)
RunListeners(n, count, c, runStateChanged, states) ==
    IF n = 0 THEN count
    ELSE RunListeners(n - 1,
                      cellStateListener(count, c, runStateChanged, states),
                      c, runStateChanged, states)

\* Cell c fires onDidChangeState: with runStateChanged its run state has
\* become state, otherwise something else about the cell has changed.
\* Each live listener of the cell runs and, for a run-state change, sets
\* the any-cell-running key.
CellStateChanged(c, state, runStateChanged) ==
    /\ c \in 1..Len(runState)
    /\ CellInUse(c)
    /\ runStateChanged <=> state # runState[c]
    /\ runState' = [runState EXCEPT ![c] = state]
    /\ executionCount' = RunListeners(liveListeners[c], executionCount, c,
                                      runStateChanged, runState')
    /\ executionCount' \in (0 - MaxCount)..MaxCount
    /\ keys' = IF runStateChanged /\ liveListeners[c] > 0
               THEN [keys EXCEPT !.someCellRunning = executionCount' > 0]
               ELSE keys
    /\ nlast' = [NBlank EXCEPT !.op = "cellState"]
    /\ UNCHANGED <<viewCells, editorDoc, kernels, binding,
                   cellStateListeners, liveListeners, viewCellsListener>>

\* A kernel registers with the service: onDidAddKernel runs
\* _updateKernelContext.
KernelAdded(k) ==
    /\ k \notin kernels
    /\ kernels' = kernels \cup {k}
    /\ keys' = updateKernelContext(keys, editorDoc, kernels', binding)
    /\ nlast' = [NBlank EXCEPT !.op = "addKernel"]
    /\ UNCHANGED <<viewCells, runState, editorDoc, binding,
                   cellStateListeners, liveListeners, viewCellsListener,
                   executionCount>>

\* The kernel selected for document d changes to k (None: to none):
\* onDidChangeNotebookKernelBinding runs _updateKernelContext.
BindingChanged(d, k) ==
    /\ k # binding[d]
    /\ k # None => k \in kernels /\ Matches(k, d)
    /\ binding' = [binding EXCEPT ![d] = k]
    /\ keys' = updateKernelContext(keys, editorDoc, kernels, binding')
    /\ nlast' = [NBlank EXCEPT !.op = "changeBinding"]
    /\ UNCHANGED <<viewCells, runState, editorDoc, kernels,
                   cellStateListeners, liveListeners, viewCellsListener,
                   executionCount>>

\* A kernel leaves the service.  Documents it was selected for lose their
\* selection, which the service announces as a binding change; no other
\* event of the removal is heard.
KernelRemoved(k) ==
    /\ k \in kernels
    /\ kernels' = kernels \ {k}
    /\ binding' = [d \in Docs |-> IF binding[d] = k THEN None ELSE binding[d]]
    /\ keys' = IF binding' # binding
               THEN updateKernelContext(keys, editorDoc, kernels', binding')
               ELSE keys
    /\ nlast' = [NBlank EXCEPT !.op = "removeKernel"]
    /\ UNCHANGED <<viewCells, runState, editorDoc, cellStateListeners,
                   liveListeners, viewCellsListener, executionCount>>

\* dispose(), lines 42-51, on the keys: four of the five bound keys are
\* reset.
disposeKeys(k) ==
    [k EXCEPT !.kernelCount = KeyDefaults.kernelCount,
              !.interruptible = KeyDefaults.interruptible,
              !.someCellRunning = KeyDefaults.someCellRunning,
              !.viewType = KeyDefaults.viewType]

\* dispose(): the constructor's subscriptions and the view model's are
\* disposed, keys are reset, the cell state listeners are disposed and their
\* array is emptied.
Dispose ==
    /\ subscribed
    /\ subscribed' = FALSE
    /\ viewCellsListener' = NoDoc
    /\ keys' = disposeKeys(keys)
    /\ liveListeners' = DisposeListeners(liveListeners, cellStateListeners)
    /\ cellStateListeners' = <<>>
    /\ nlast' = [NBlank EXCEPT !.op = "dispose"]
    /\ UNCHANGED <<viewCells, runState, editorDoc, kernels, binding,
                   executionCount>>

\* After dispose() the editor's and the kernel service's events reach no
\* handler: the document, the kernels and the bindings change and nothing
\* else does.
UnheardModelChange(d) ==
    /\ ~subscribed
    /\ d # editorDoc
    /\ editorDoc' = d
    /\ nlast' = [NBlank EXCEPT !.op = "changeModel"]
    /\ UNCHANGED <<viewCells, runState, kernels, binding, keys,
                   cellStateListeners, liveListeners, viewCellsListener,
                   executionCount, subscribed>>

UnheardKernelAdded(k) ==
    /\ ~subscribed
    /\ k \notin kernels
    /\ kernels' = kernels \cup {k}
    /\ nlast' = [NBlank EXCEPT !.op = "addKernel"]
    /\ UNCHANGED <<viewCells, runState, editorDoc, binding, keys,
                   cellStateListeners, liveListeners, viewCellsListener,
                   executionCount, subscribed>>

UnheardBindingChanged(d, k) ==
    /\ ~subscribed
    /\ k # binding[d]
    /\ k # None => k \in kernels /\ Matches(k, d)
    /\ binding' = [binding EXCEPT ![d] = k]
    /\ nlast' = [NBlank EXCEPT !.op = "changeBinding"]
    /\ UNCHANGED <<viewCells, runState, editorDoc, kernels, keys,
                   cellStateListeners, liveListeners, viewCellsListener,
                   executionCount, subscribed>>

NextNotebookCells ==
    \/ \E d \in Docs \cup {NoDoc} : SetModel(d) /\ UNCHANGED notNotebook
    \/ \E d \in Docs :
          \E event \in SpliceEvents(Len(viewCells[d]),
                                    MaxCells - Len(runState)) :
              CellsChanged(d, event) /\ UNCHANGED notNotebook
    \/ \E c \in CellIds, state \in RunStates, changed \in BOOLEAN :
          CellStateChanged(c, state, changed) /\ UNCHANGED notNotebook

NextNotebookKernels ==
    \/ \E d \in Docs \cup {NoDoc} : SetModel(d) /\ UNCHANGED notNotebook
    \/ \E k \in Kernels : KernelAdded(k) /\ UNCHANGED notNotebook
    \/ \E d \in Docs, k \in Kernels \cup {None} :
          BindingChanged(d, k) /\ UNCHANGED notNotebook
    \/ \E k \in Kernels : KernelRemoved(k) /\ UNCHANGED notNotebook

-----------------------------------------------------------------------------
\* The workspace trust editor's debounced render.

\* Most render calls counted between two firings of the timer.
MaxBurst == 2

\* The services' events the editor listens to.
TrustEvents == {"onChange", "onDidChangeRestrictedSettings",
                "onDidChangeTrust", "onDidChangeTrustedFolders"}

\* registerListeners: the events whose listener calls render().
registerListeners_noFolders == TrustEvents \ {"onDidChangeTrustedFolders"}

registerListeners == TrustEvents

\* @debounce(100): a call clears the pending timer and sets a new one, so
\* one timer is pending after it; the method runs when the timer fires.
debounce(pendingTimers) == 1

\* render's guard (lines 175-177): the call returns at once.
renderReturns_never(guard) == FALSE

renderReturns(guard) == guard

\* getHeaderTitleText and the classes of the root element (lines 182-205).
headerOf(isWorkspaceTrusted) ==
    IF isWorkspaceTrusted THEN "trusted" ELSE "restricted"

\* The button or text renderAffectedFeatures adds (lines 290-300).
buttonOf(isWorkspaceTrusted, canSetWorkspaceTrust) ==
    IF isWorkspaceTrusted
    THEN IF canSetWorkspaceTrust THEN "dontTrust" ELSE "trustedText"
    ELSE IF canSetWorkspaceTrust THEN "trust" ELSE "none"

\* Nothing rendered yet.
Unrendered == 0 - 1
ViewBlank == [header |-> "", settings |-> Unrendered,
              extensions |-> Unrendered, button |-> "",
              folders |-> Unrendered]

\* What the editor would display if it showed the services' present state.
ViewOfServices ==
    [header |-> headerOf(trusted), settings |-> restrictedSettings,
     extensions |-> installedExtensions, button |-> buttonOf(trusted, canSet),
     folders |-> trustedFolders]

Consistent == display = ViewOfServices

\* render up to its await (lines 179-211): the header is drawn.
renderHead(v, isWorkspaceTrusted) ==
    [v EXCEPT !.header = headerOf(isWorkspaceTrusted)]

\* render after its await (lines 212-222): the affected features, with the
\* settings count taken before the await, and the trusted folders.
renderTail_noTree(v, settingsCount, extensionCount, button, folders) ==
    [v EXCEPT !.settings = settingsCount,
              !.extensions = extensionCount,
              !.button = button]

renderTail(v, settingsCount, extensionCount, button, folders) ==
    [v EXCEPT !.settings = settingsCount,
              !.extensions = extensionCount,
              !.button = button,
              !.folders = folders]

\* No pass is suspended.
NoPass == [awaiting |-> FALSE, settingsCount |-> 0, changed |-> FALSE,
           afterDrop |-> FALSE, stale |-> FALSE]

TBlank == [op |-> "", clean |-> FALSE, afterDrop |-> FALSE,
           wasStale |-> FALSE]

\* The editor has its input: setInput (lines 122-129) has registered the
\* listeners and called render(), whose timer is pending.
InitTrust ==
    /\ trusted = FALSE
    /\ canSet = TRUE
    /\ restrictedSettings = 0
    /\ installedExtensions = 0
    /\ trustedFolders = 0
    /\ display = ViewBlank
    /\ rendering = FALSE
    /\ pass = NoPass
    /\ passes = 0
    /\ timers = debounce(0)
    /\ burst = 1
    /\ dropped = FALSE
    /\ tlast = TBlank

Toggle(n) == 1 - n

\* A service changes and fires its event; a registered listener calls the
\* debounced render().
ServiceChanged(event) ==
    /\ trusted' = IF event = "onDidChangeTrust" THEN ~trusted ELSE trusted
    /\ restrictedSettings' = IF event = "onDidChangeRestrictedSettings"
                             THEN Toggle(restrictedSettings)
                             ELSE restrictedSettings
    /\ installedExtensions' = IF event = "onChange"
                              THEN Toggle(installedExtensions)
                              ELSE installedExtensions
    /\ trustedFolders' = IF event = "onDidChangeTrustedFolders"
                         THEN Toggle(trustedFolders)
                         ELSE trustedFolders
    /\ IF event \in registerListeners
       THEN /\ timers' = debounce(timers)
            /\ burst' = Min(burst + 1, MaxBurst)
       ELSE UNCHANGED <<timers, burst>>
    /\ pass' = IF pass.awaiting THEN [pass EXCEPT !.changed = TRUE] ELSE pass
    /\ tlast' = [TBlank EXCEPT !.op = "notify"]
    /\ UNCHANGED <<canSet, display, rendering, passes, dropped>>

\* Whether the workspace trust can be set changes; no event of it is
\* listened to.
CanSetChanged ==
    /\ canSet' = ~canSet
    /\ pass' = IF pass.awaiting THEN [pass EXCEPT !.changed = TRUE] ELSE pass
    /\ tlast' = [TBlank EXCEPT !.op = "canSet"]
    /\ UNCHANGED <<trusted, restrictedSettings, installedExtensions,
                   trustedFolders, display, rendering, passes, timers, burst,
                   dropped>>

\* A timer of the debounce fires and render (lines 174-224) is called: it
\* returns at the guard, or sets the guard and runs up to its await.
TimerFires ==
    /\ timers > 0
    /\ timers' = timers - 1
    /\ burst' = 0
    /\ IF renderReturns(rendering)
       THEN /\ dropped' = TRUE
            /\ tlast' = [TBlank EXCEPT !.op = "drop"]
            /\ UNCHANGED <<display, rendering, pass, passes>>
       ELSE /\ rendering' = TRUE
            /\ display' = renderHead(display, trusted)
            /\ pass' = [awaiting |-> TRUE,
                        settingsCount |-> restrictedSettings,
                        changed |-> FALSE,
                        afterDrop |-> dropped,
                        stale |-> ~Consistent]
            /\ passes' = passes + 1
            /\ dropped' = FALSE
            /\ tlast' = [TBlank EXCEPT !.op = "start"]
    /\ UNCHANGED <<trusted, canSet, restrictedSettings, installedExtensions,
                   trustedFolders>>

\* The extension query answers: the pass runs to its end (lines 212-223)
\* and clears the guard.
AwaitResolves ==
    /\ pass.awaiting
    /\ display' = renderTail(display, pass.settingsCount,
                             installedExtensions, buttonOf(trusted, canSet),
                             trustedFolders)
    /\ rendering' = FALSE
    /\ pass' = NoPass
    /\ passes' = passes - 1
    /\ tlast' = [op |-> "complete", clean |-> ~pass.changed,
                 afterDrop |-> pass.afterDrop, wasStale |-> pass.stale]
    /\ UNCHANGED <<trusted, canSet, restrictedSettings, installedExtensions,
                   trustedFolders, timers, burst, dropped>>

\* The extension query fails: the await throws and the pass is over without
\* reaching line 223, the guard staying set.
AwaitRejects ==
    /\ pass.awaiting
    /\ pass' = NoPass
    /\ passes' = passes - 1
    /\ tlast' = [TBlank EXCEPT !.op = "fail"]
    /\ UNCHANGED <<trusted, canSet, restrictedSettings, installedExtensions,
                   trustedFolders, display, rendering, timers, burst, dropped>>

NextTrust ==
    \/ \E event \in TrustEvents : ServiceChanged(event) /\ UNCHANGED notTrust
    \/ CanSetChanged /\ UNCHANGED notTrust
    \/ TimerFires /\ UNCHANGED notTrust
    \/ AwaitResolves /\ UNCHANGED notTrust
    \/ AwaitRejects /\ UNCHANGED notTrust

-----------------------------------------------------------------------------
\* The workspace trust test doubles (TestWorkspaceTrustManagementService and
\* TestWorkspaceTrustRequestService)

MaxFired == 2

\* the operations of the management double that are not implemented; the
\* async ones reject the promise they return instead of throwing to the caller
UnimplementedManagement ==
    {"addWorkspaceTrustTransitionParticipant", "getTrustedFolders",
     "setParentFolderTrust", "getUriTrustInfo", "setTrustedFolders",
     "setUrisTrust", "canSetParentFolderTrust", "canSetWorkspaceTrust"}

UnimplementedRequest == {"cancelRequest", "completeRequest"}

AsyncOperations ==
    {"setTrustedFolders", "setUrisTrust", "setWorkspaceTrust",
     "completeRequest", "requestWorkspaceTrust"}

\* the boolean argument of an operation, if it takes one: <<>> is a call
\* without it (completeRequest's parameter is optional)
ArgumentsOf(op) ==
    IF op \in {"setParentFolderTrust", "setUrisTrust", "setWorkspaceTrust"}
    THEN {<<TRUE>>, <<FALSE>>}
    ELSE IF op = "completeRequest" THEN {<<>>, <<TRUE>>, <<FALSE>>}
    ELSE {<<>>}

outcomeOf_stubbed(op) ==
    IF op \in AsyncOperations THEN "resolves" ELSE "returns"

\* how a call ends: with the Error `Method not implemented.`, thrown or, from
\* an async method, as the rejection of its promise; or with a value
outcomeOf(op) ==
    IF op \in UnimplementedManagement \cup UnimplementedRequest
    THEN IF op \in AsyncOperations THEN "rejects" ELSE "throws"
    ELSE IF op \in AsyncOperations THEN "resolves" ELSE "returns"

Failed(outcome) == outcome \in {"throws", "rejects"}

DBlank == [op |-> "", arg |-> <<>>, outcome |-> "", value |-> <<>>]

DidChangeTrust(v) == [event |-> "onDidChangeTrust", value |-> v]

\* new TestWorkspaceTrustManagementService(m), new
\* TestWorkspaceTrustRequestService(r)
ConstructDoubles(m, r) ==
    /\ managementTrusted = m
    /\ requestTrusted = r
    /\ constructed = [management |-> m, request |-> r]
    /\ fired = <<>>
    /\ dlast = DBlank

\* the management double with its default argument
InitDoubles == ConstructDoubles(TRUE, TRUE)

\* a call of an operation without implementation, on either double
UnimplementedCall(op, arg) ==
    /\ op \in UnimplementedManagement \cup UnimplementedRequest
    /\ arg \in ArgumentsOf(op)
    /\ dlast' = [DBlank EXCEPT !.op = op, !.arg = arg,
                               !.outcome = outcomeOf(op)]
    /\ UNCHANGED <<managementTrusted, requestTrusted, constructed, fired>>

isWorkpaceTrusted ==
    /\ dlast' = [DBlank EXCEPT !.op = "isWorkpaceTrusted",
                               !.outcome = outcomeOf("isWorkpaceTrusted"),
                               !.value = <<managementTrusted>>]
    /\ UNCHANGED <<managementTrusted, requestTrusted, constructed, fired>>

setWorkspaceTrustFires_always(v) ==
    fired' = Append(fired, DidChangeTrust(v))

\* the event of setWorkspaceTrust(v): fired only if v is a new value
setWorkspaceTrustFires(v) ==
    fired' = IF managementTrusted # v THEN Append(fired, DidChangeTrust(v))
             ELSE fired

setWorkspaceTrust(v) ==
    /\ managementTrusted # v => Len(fired) < MaxFired
    /\ managementTrusted' = v
    /\ setWorkspaceTrustFires(v)
    /\ dlast' = [DBlank EXCEPT !.op = "setWorkspaceTrust", !.arg = <<v>>,
                               !.outcome = outcomeOf("setWorkspaceTrust")]
    /\ UNCHANGED <<requestTrusted, constructed>>

requestWorkspaceTrust ==
    /\ dlast' = [DBlank EXCEPT !.op = "requestWorkspaceTrust",
                               !.outcome = outcomeOf("requestWorkspaceTrust"),
                               !.value = <<requestTrusted>>]
    /\ UNCHANGED <<managementTrusted, requestTrusted, constructed, fired>>

NextDoubles ==
    \/ \E op \in UnimplementedManagement \cup UnimplementedRequest,
          arg \in {<<>>, <<TRUE>>, <<FALSE>>} :
          UnimplementedCall(op, arg) /\ UNCHANGED notDoubles
    \/ isWorkpaceTrusted /\ UNCHANGED notDoubles
    \/ \E v \in BOOLEAN : setWorkspaceTrust(v) /\ UNCHANGED notDoubles
    \/ requestWorkspaceTrust /\ UNCHANGED notDoubles

-----------------------------------------------------------------------------
\* Terminal profile detection (terminalProfiles.test.ts)

MaxShells == 3

ShellIds == 1..MaxShells

\* 'fakeshell1', 'fakeshell2', ...
ShellName(i) == "fakeshell" \o ToString(i)

\* a path is a directory and a base name; a path without directory is looked
\* up on the search path
BinDir == "/bin"
AbsolutePath(i) == [dir |-> BinDir, base |-> ShellName(i)]
OnPath(i) == [dir |-> "", base |-> ShellName(i)]

Ascending(S) == SelectSeq([i \in ShellIds |-> i], LAMBDA i : i \in S)

\* absoluteConfig / onPathConfig, restricted to the shells of S
absoluteConfig(S) ==
    [k \in 1..Cardinality(S) |->
        [profileName |-> ShellName(Ascending(S)[k]),
         path |-> AbsolutePath(Ascending(S)[k])]]

onPathConfig(S) ==
    [k \in 1..Cardinality(S) |->
        [profileName |-> ShellName(Ascending(S)[k]),
         path |-> OnPath(Ascending(S)[k])]]

existsFile_always(paths, path) == TRUE

\* createFsProvider(expectedPaths).existsFile(path)
existsFile(paths, path) == path \in paths

\* the file a profile's path stands for
Executable(path) ==
    IF path.dir = "" THEN [dir |-> BinDir, base |-> path.base] ELSE path

Profile(name, path, auto) ==
    [profileName |-> name, path |-> path, args |-> Undefined,
     isAutoDetected |-> auto, overrideName |-> Undefined]

\* the profiles considered: the shells /etc/shells lists, when they are
\* included, under their base names, then the configured profiles, which
\* replace a listed shell of the same name
Candidates(includeDetected, config, etcShells) ==
    LET names == {config[k].profileName : k \in 1..Len(config)}
        listed == SelectSeq(etcShells, LAMBDA l : l.base \notin names)
    IN  (IF includeDetected
         THEN [k \in 1..Len(listed) |-> Profile(listed[k].base, listed[k], "true")]
         ELSE <<>>)
        \o [k \in 1..Len(config) |->
               Profile(config[k].profileName, config[k].path, Undefined)]

\* detectAvailableProfiles: the candidates whose executable exists
detectAvailableProfiles(includeDetected, config, paths, etcShells) ==
    SelectSeq(Candidates(includeDetected, config, etcShells),
              LAMBDA c : existsFile(paths, Executable(c.path)))

\* profilesEqual: the assertions all pass
profilesEqual(actualProfiles, expectedProfiles) ==
    /\ Len(actualProfiles) = Len(expectedProfiles)
    /\ \A k \in 1..Len(expectedProfiles) :
          LET expected == expectedProfiles[k]
              found == SelectSeq(actualProfiles,
                          LAMBDA e : e.profileName = expected.profileName)
          IN  /\ found # <<>>
              /\ found[1].profileName = expected.profileName
              /\ found[1].path = expected.path
              /\ found[1].args = expected.args
              /\ found[1].isAutoDetected = expected.isAutoDetected
              /\ found[1].overrideName = expected.overrideName

NotDetected == [called |-> FALSE, profiles |-> <<>>]

PBlank == [op |-> "", includeDetected |-> FALSE]

\* before any test: nothing on the file system, nothing configured
InitProfiles ==
    /\ expectedPaths = {}
    /\ etcShellsContent = <<>>
    /\ configProfiles = <<>>
    /\ detected = NotDetected
    /\ plast = PBlank

\* a test's set-up: createFsProvider(paths, lines of /etc/shells) and a
\* configuration of absolute or of on-path profiles
InitScenario ==
    \E files \in SUBSET ShellIds, lines \in SUBSET ShellIds,
       configured \in SUBSET ShellIds, absolute \in BOOLEAN :
        /\ expectedPaths = {AbsolutePath(i) : i \in files}
        /\ etcShellsContent = [k \in 1..Cardinality(lines) |->
                                  AbsolutePath(Ascending(lines)[k])]
        /\ configProfiles = IF absolute THEN absoluteConfig(configured)
                            ELSE onPathConfig(configured)
        /\ detected = NotDetected
        /\ plast = PBlank

\* await detectAvailableProfiles(...): the result, in either order
DetectAvailableProfiles(includeDetected, reversed) ==
    /\ LET result == detectAvailableProfiles(includeDetected, configProfiles,
                                             expectedPaths, etcShellsContent)
       IN  detected' = [called |-> TRUE,
                        profiles |-> IF reversed THEN Reverse(result)
                                     ELSE result]
    /\ plast' = [op |-> "detectAvailableProfiles",
                 includeDetected |-> includeDetected]
    /\ UNCHANGED <<expectedPaths, etcShellsContent, configProfiles>>

NextProfiles ==
    \E includeDetected \in BOOLEAN, reversed \in BOOLEAN :
        DetectAvailableProfiles(includeDetected, reversed)
        /\ UNCHANGED notProfiles

-----------------------------------------------------------------------------
\* The terminal view pane (TerminalViewPane)

MaxPaneTerminals == 2

\* the pane after construction: no container, no tabbed view, welcome not
\* showing, terminals not initialized
NewPane ==
    [parentDomElement |-> FALSE, terminalTabbedView |-> FALSE,
     isWelcomeShowing |-> FALSE, terminalsInitialized |-> FALSE]

\* shouldShowWelcome(), lines 264-267: the value it stores and returns
shouldShowWelcome(registered, count) == ~registered /\ count = 0

\* _onDidChangeViewWelcomeState.fire(): the pane's base class, once the
\* body is rendered, asks shouldShowWelcome() again
updateViewWelcome(p, registered, count) ==
    IF p.parentDomElement
    THEN [p EXCEPT !.isWelcomeShowing = shouldShowWelcome(registered, count)]
    ELSE p

\* _createTabsView(), lines 152-160
createTabsView(p) ==
    IF ~p.parentDomElement THEN p ELSE [p EXCEPT !.terminalTabbedView = TRUE]

\* the onInstanceCreated listener, lines 83-92, with count terminals in the
\* service
onInstanceCreated(p, registered, count) ==
    IF ~p.isWelcomeShowing THEN p
    ELSE LET asked == updateViewWelcome([p EXCEPT !.isWelcomeShowing = TRUE],
                                        registered, count)
         IN  IF ~asked.terminalTabbedView /\ asked.parentDomElement
             THEN createTabsView(asked) ELSE asked

\* tabbed views a step created
Created(before, after) ==
    IF after.terminalTabbedView /\ ~before.terminalTabbedView THEN 1 ELSE 0

onVisible_always(initialized, registered, hadTerminals) ==
    IF ~registered THEN "none" ELSE IF initialized THEN "create"
    ELSE "initialize"

\* the visibility listener on becoming visible, lines 126-136: what it asks
\* of the terminal service
onVisible(initialized, registered, hadTerminals) ==
    IF ~registered THEN "none"
    ELSE IF initialized THEN (IF ~hadTerminals THEN "create" ELSE "none")
    ELSE "initialize"

VBlank == [op |-> "", visible |-> FALSE, did |-> "none", hadTerminals |-> FALSE,
           registered |-> FALSE, initialized |-> FALSE]

InitViewPane ==
    /\ isProcessSupportRegistered = FALSE
    /\ terminalCount = 0
    /\ pane = NewPane
    /\ bodyVisible = FALSE
    /\ tabbedViewsCreated = 0
    /\ initializeCalls = 0
    /\ vlast = VBlank

\* renderBody(container), lines 98-107
RenderBody ==
    /\ ~pane.parentDomElement
    /\ LET welcome == shouldShowWelcome(isProcessSupportRegistered,
                                        terminalCount)
           p == [pane EXCEPT !.parentDomElement = TRUE,
                             !.isWelcomeShowing = welcome]
       IN  /\ pane' = IF ~welcome THEN createTabsView(p) ELSE p
           /\ tabbedViewsCreated' = tabbedViewsCreated + Created(pane, pane')
    /\ vlast' = [VBlank EXCEPT !.op = "renderBody"]
    /\ UNCHANGED <<isProcessSupportRegistered, terminalCount, bodyVisible,
                   initializeCalls>>

\* onDidRegisterProcessSupport, lines 74-81
DidRegisterProcessSupport ==
    /\ ~isProcessSupportRegistered
    /\ isProcessSupportRegistered' = TRUE
    /\ pane' = updateViewWelcome(pane, TRUE, terminalCount)
    /\ vlast' = [VBlank EXCEPT !.op = "registerProcessSupport"]
    /\ UNCHANGED <<terminalCount, bodyVisible, tabbedViewsCreated,
                   initializeCalls>>

\* a terminal is created by some caller (or restored by the service) and
\* onInstanceCreated fires
InstanceCreated ==
    /\ terminalCount < MaxPaneTerminals
    /\ terminalCount' = terminalCount + 1
    /\ pane' = onInstanceCreated(pane, isProcessSupportRegistered,
                                 terminalCount')
    /\ tabbedViewsCreated' = tabbedViewsCreated + Created(pane, pane')
    /\ vlast' = [VBlank EXCEPT !.op = "instanceCreated"]
    /\ UNCHANGED <<isProcessSupportRegistered, bodyVisible, initializeCalls>>

\* a terminal is disposed; the pane has no listener for it
InstanceDisposed ==
    /\ terminalCount > 0
    /\ terminalCount' = terminalCount - 1
    /\ vlast' = [VBlank EXCEPT !.op = "instanceDisposed"]
    /\ UNCHANGED <<isProcessSupportRegistered, pane, bodyVisible,
                   tabbedViewsCreated, initializeCalls>>

\* the body's visibility changes; the listener of lines 124-147 exists once
\* the body is rendered.  createTerminal() makes the service fire
\* onInstanceCreated; initializeTerminals() creates its terminals later.
BodyVisibilityChanged(visible) ==
    /\ visible # bodyVisible
    /\ bodyVisible' = visible
    /\ LET hadTerminals == terminalCount > 0
           did == IF pane.parentDomElement /\ visible
                  THEN onVisible(pane.terminalsInitialized,
                                 isProcessSupportRegistered, hadTerminals)
                  ELSE "none"
       IN  /\ did = "create" => terminalCount < MaxPaneTerminals
           /\ terminalCount' = IF did = "create" THEN terminalCount + 1
                               ELSE terminalCount
           /\ pane' = IF did = "create"
                      THEN onInstanceCreated(pane, isProcessSupportRegistered,
                                             terminalCount')
                      ELSE IF did = "initialize"
                      THEN [pane EXCEPT !.terminalsInitialized = TRUE]
                      ELSE pane
           /\ initializeCalls' = IF did = "initialize" THEN initializeCalls + 1
                                 ELSE initializeCalls
           /\ tabbedViewsCreated' = tabbedViewsCreated + Created(pane, pane')
           /\ vlast' = [op |-> "visibility", visible |-> visible, did |-> did,
                        hadTerminals |-> hadTerminals,
                        registered |-> isProcessSupportRegistered,
                        initialized |-> pane.terminalsInitialized]
    /\ UNCHANGED isProcessSupportRegistered

NextViewPane ==
    \/ RenderBody /\ UNCHANGED notViewPane
    \/ DidRegisterProcessSupport /\ UNCHANGED notViewPane
    \/ InstanceCreated /\ UNCHANGED notViewPane
    \/ InstanceDisposed /\ UNCHANGED notViewPane
    \/ \E visible \in BOOLEAN :
          BodyVisibilityChanged(visible) /\ UNCHANGED notViewPane

-----------------------------------------------------------------------------
\* Specifications: each component runs from the state after construction
\* while the others stay as constructed.

\* Every component as constructed.
InitAll ==
    /\ Init /\ InitRenderer /\ InitNotebook /\ InitTrust /\ InitDoubles
    /\ InitProfiles /\ InitViewPane

Spec == InitAll /\ [][Next]_vars

SpecRenderer ==
    InitAll /\ [][NextRenderer]_rvars

\* Single calls of renderElement, over every arrangement.
InitLabels ==
    /\ Init /\ InitArranged /\ InitNotebook /\ InitTrust /\ InitDoubles
    /\ InitProfiles /\ InitViewPane

SpecLabels ==
    InitLabels /\ [][NextLabels]_rvars

SpecNotebookCells ==
    InitAll /\ [][NextNotebookCells]_nvars

SpecNotebookKernels ==
    InitAll /\ [][NextNotebookKernels]_nvars

\* The synchronizer from construction to dispose() and after, with the
\* kernel service's and the editor's events.
NextNotebookDispose ==
    \/ \E d \in Docs \cup {NoDoc} :
          subscribed /\ SetModel(d) /\ UNCHANGED notNotebook
    \/ \E k \in Kernels :
          subscribed /\ KernelAdded(k) /\ UNCHANGED notNotebook
    \/ \E d \in Docs, k \in Kernels \cup {None} :
          subscribed /\ BindingChanged(d, k) /\ UNCHANGED notNotebook
    \/ Dispose /\ UNCHANGED notSynchronizer
    \/ \E d \in Docs \cup {NoDoc} :
          UnheardModelChange(d) /\ UNCHANGED notSynchronizer
    \/ \E k \in Kernels : UnheardKernelAdded(k) /\ UNCHANGED notSynchronizer
    \/ \E d \in Docs, k \in Kernels \cup {None} :
          UnheardBindingChanged(d, k) /\ UNCHANGED notSynchronizer

SpecNotebookDispose ==
    InitAll /\ [][NextNotebookDispose]_<<nvars, subscribed>>

SpecTrust ==
    InitAll /\ [][NextTrust]_tvars

SpecViewPane ==
    InitAll /\ [][NextViewPane]_vvars

\* The test doubles, constructed with either value each.
InitConstructed ==
    /\ Init /\ InitRenderer /\ InitNotebook /\ InitTrust /\ InitProfiles
    /\ InitViewPane
    /\ \E m \in BOOLEAN, r \in BOOLEAN : ConstructDoubles(m, r)

SpecDoubles ==
    InitConstructed /\ [][NextDoubles]_dvars

\* Profile detection over every set-up of the tests' shape.
InitDetection ==
    /\ Init /\ InitRenderer /\ InitNotebook /\ InitTrust /\ InitDoubles
    /\ InitScenario /\ InitViewPane

SpecProfiles ==
    InitDetection /\ [][NextProfiles]_pvars


-----------------------------------------------------------------------------
\* Properties

C2_RenderMirrorsRegistry ==
    last.rendered =>
        /\ Len(list) = Len(instances)
        /\ \A k \in 1..Len(instances) : list[k] = instances[k]

\* render() has replaced a sequence that held other instances
C2_Witness ==
    /\ last.rendered
    /\ last.prev # <<>>
    /\ last.prev # list
    /\ list # <<>>
    /\ list = instances

\* C3 (as stated): the single-selection context key is true iff exactly one
\* row is selected, whatever the number of focused rows.
C3_KeyTracksSelection ==
    singleSelected <=> (Cardinality(selection) = 1)

\* C4: the selected and the focused rows are rows of the rendered sequence,
\* and once the list has re-rendered (and whenever no notification is
\* outstanding) every selected or focused instance is in the registry.
C4_SelectionFocusRendered ==
    /\ selection \subseteq Rows(list)
    /\ focus \subseteq Rows(list)
    /\ (last.rendered \/ pending = <<>>) =>
          ElementsAt(list, selection \cup focus) \subseteq Range(instances)

\* a render has dropped a selected instance that left the registry
C4_Witness ==
    /\ last.rendered
    /\ list # <<>>
    /\ \E x \in Range(last.sel) :
          /\ x \notin Range(instances)
          /\ x \notin ElementsAt(list, selection \cup focus)

\* C5: handling active-instance-changed for instance e makes the selection
\* exactly the index of e in the registry's sequence and reveals that index;
\* without an instance neither the selection changes nor is a row revealed.
C5_ActiveInstanceSelected ==
    [][last'.op = ActiveInstanceChanged =>
          IF last'.inst # None
          THEN /\ selection' = {IndexOf(instances', last'.inst)}
               /\ last'.reveal = IndexOf(instances', last'.inst)
          ELSE /\ selection' = selection
               /\ last'.reveal = NoReveal]_vars

\* the second row became the only selected one while another row was selected
C5_Witness ==
    /\ last.op = ActiveInstanceChanged
    /\ last.inst # None
    /\ selection = {1}
    /\ last.reveal = 1
    /\ list[2] = last.inst

\* C6: a split or kill row action on instance X has run its callback once on
\* every instance of the selection when X is selected, and on X alone when
\* it is not; the killed instances have left the registry.
C6_SelectionOrInstance ==
    last.op = "rowActionDone" =>
        LET done == IF last.mode = "split" THEN last.splits ELSE last.disposed
        IN  /\ IF last.inst \in Range(last.sel)
               THEN /\ Range(done) = Range(last.sel)
                    /\ Len(done) = Len(last.sel)
               ELSE done = <<last.inst>>
            /\ last.mode = "kill" => Range(done) \cap Range(instances) = {}

\* kill on the second of two selected instances disposed both
C6_Witness ==
    /\ last.op = "rowActionDone"
    /\ last.mode = "kill"
    /\ Len(last.sel) = 2
    /\ last.inst = last.sel[2]
    /\ Range(last.disposed) = Range(last.sel)
    /\ instances = <<>>

\* C7: a click without Alt on a row focuses the row's instance iff the focus
\* mode is single click and at most one row is selected; it never changes
\* the selection.
C7_SingleClickFocus ==
    [][(last'.op = "click" /\ ~last'.alt /\ last'.row # NoRow) =>
          /\ selection' = selection
          /\ last'.inst = list[last'.row + 1]
          /\ IF last'.mode = "singleClick" /\ Cardinality(selection) <= 1
             THEN last'.focused = <<last'.inst>>
             ELSE last'.focused = <<>>]_vars

\* a single-click-mode click on a row of a multi-selection focused nothing
C7_Witness ==
    /\ last.op = "click"
    /\ ~last.alt
    /\ last.row # NoRow
    /\ last.mode = "singleClick"
    /\ Cardinality(selection) = 2
    /\ last.focused = <<>>

C9_CreateOnEmptySpace ==
    last.op = "dblclick" => (last.row = NoRow <=> last.created # <<>>)

\* C9 (amended): a double-click, wherever it lands, creates exactly one new
\* instance, makes it active and asks it to take the focus when ready iff the
\* list has no focused row; with a focused row it creates nothing.
C9_CreateWhenNoFocus ==
    [][last'.op = "dblclick" =>
          IF focus = {}
          THEN /\ Len(last'.created) = 1
               /\ last'.created[1] \notin Range(instances)
               /\ instances' = Append(instances, last'.created[1])
               /\ last'.active = last'.created[1]
               /\ pending'[Len(pending')] =
                     Notify(ActiveInstanceChanged, last'.created[1])
               /\ awaiting' = awaiting \cup {last'.created[1]}
          ELSE /\ last'.created = <<>>
               /\ instances' = instances
               /\ last'.active = None
               /\ awaiting' = awaiting]_vars

\* a double-click on a row, the list having no focused row, created an instance
C9_Witness ==
    /\ last.op = "dblclick"
    /\ last.row # NoRow
    /\ Len(last.created) = 1
    /\ last.active = last.created[1]
    /\ last.created[1] \in awaiting
    /\ last.created[1] \in Range(instances)

\* C10: an Alt+click on a row splits that row's instance once, focuses no
\* instance and changes neither selection nor list focus, whatever the focus
\* mode and the selection; an Alt+click on empty space splits nothing.
C10_AltClickSplits ==
    [][(last'.op = "click" /\ last'.alt) =>
          /\ selection' = selection
          /\ focus' = focus
          /\ IF last'.row # NoRow
             THEN /\ last'.splits = <<list[last'.row + 1]>>
                  /\ last'.focused = <<>>
                  /\ Len(instances') = Len(instances) + 1
             ELSE /\ last'.splits = <<>>
                  /\ instances' = instances]_vars

\* an Alt+click split the instance of a row that a plain click would focus
C10_Witness ==
    /\ last.op = "click"
    /\ last.alt
    /\ last.row # NoRow
    /\ last.mode = "singleClick"
    /\ Cardinality(selection) <= 1
    /\ last.splits = <<last.inst>>
    /\ last.focused = <<>>
    /\ Len(instances) = 2

\* C11: every rendered row's template holds exactly one middle-click
\* listener and it is bound to the row's element; a released template holds
\* none (the previous binding's listeners are gone before the template is
\* bound again); a middle click calls dispose() on the row's element only, and
\* dispose() is called on no instance twice.
C11_OneMiddleClickHandler ==
    /\ \A r \in 1..Len(rows) :
          rows[r].template.elementDispoables =
              [store |-> TRUE, listeners |-> <<rows[r].element>>]
    /\ \A k \in 1..Len(cache) :
          cache[k].template.elementDispoables =
              [store |-> FALSE, listeners |-> <<>>]
    /\ rlast.op = "auxclick" =>
          rlast.disposed = IF rlast.button = MiddleButton
                           THEN <<rlast.element>> ELSE <<>>
    /\ \A x \in 1..Len(terminal) : terminal[x].disposed <= 1

\* A middle click on a row whose template showed another instance before,
\* one that is still alive: only the row's element was disposed.
C11_Witness ==
    /\ rlast.op = "auxclick"
    /\ rlast.button = MiddleButton
    /\ rows[rlast.row + 1].previous \notin {None, rlast.element}
    /\ terminal[rows[rlast.row + 1].previous].disposed = 0
    /\ terminal[rlast.element].disposed = 1

\* The visible state of a template: has-text marker, label (name),
\* description, tooltip (title), hover actions and action-bar contents.
Visible(template) ==
    [hasText |-> template.hasText, name |-> template.name,
     description |-> template.description, title |-> template.title,
     hoverActions |-> template.hoverActions,
     actionBar |-> template.actionBar]

\* The templates the renderer can be handed: those of the rows, the released
\* ones and a new one.
Templates ==
    {rows[r].template : r \in 1..Len(rows)}
    \cup {cache[k].template : k \in 1..Len(cache)}
    \cup {renderTemplate}

\* C12: renderElement is idempotent on the visible state: for every instance
\* of the service and every template, rendering the instance a second time
\* into the template it was just rendered into changes nothing visible; and
\* rendering a row again that the list has rendered in the current state
\* leaves its visible state as it is.
C12_RenderElementIdempotent ==
    /\ \A i \in 1..Len(Flatten(terminalGroups)), template \in Templates :
          LET instance == Flatten(terminalGroups)[i]
              once == renderElement(instance, i - 1, template)
          IN  Visible(renderElement(instance, i - 1, once)) = Visible(once)
    /\ ~renderDue =>
          \A r \in 1..Len(rows) :
              Visible(renderElement(rows[r].element, r - 1, rows[r].template))
                  = Visible(rows[r].template)

\* A rendered row with text, actions and hover actions, in a recycled
\* template, that a second renderElement leaves as it is.
C12_Witness ==
    /\ ~renderDue
    /\ \E r \in 1..Len(rows) :
          /\ rows[r].previous \notin {None, rows[r].element}
          /\ rows[r].template.hasText
          /\ rows[r].template.actionBar # <<>>
          /\ rows[r].template.hoverActions # <<>>
          /\ Visible(renderElement(rows[r].element, r - 1, rows[r].template))
                 = Visible(rows[r].template)

\* The prefix piece of the label of the row that shows `instance`.
RowPrefix(instance) ==
    LET r == CHOOSE k \in 1..Len(rows) : rows[k].element = instance
    IN  rows[r].template.name[1]

\* C19: once the list is rendered, in a group of N > 1 instances the row of
\* the instance at index 0 has the "first" prefix and no other row of the
\* group has it, the row of the instance at index N-1 has the "last" prefix
\* and no other has it, and the N-2 rows in between have the "middle"
\* prefix; the row of an instance alone in its group has no prefix.
C19_SplitPrefixes ==
    ~renderDue =>
        \A g \in 1..Len(terminalGroups) :
            LET group == terminalGroups[g]
                N == Len(group)
                With(prefix) == {k \in 1..N : RowPrefix(group[k]) = prefix}
            IN  IF N > 1
                THEN /\ With(PrefixFirst) = {1}
                     /\ With(PrefixLast) = {N}
                     /\ With(PrefixMiddle) = 2..(N - 1)
                     /\ Cardinality(With(PrefixMiddle)) = N - 2
                ELSE RowPrefix(group[1]) = NoPrefix

\* A rendered group of at least three instances, so a middle row exists.
C19_Witness ==
    /\ ~renderDue
    /\ \E g \in 1..Len(terminalGroups) :
          /\ Len(terminalGroups[g]) >= 3
          /\ RowPrefix(terminalGroups[g][2]) = PrefixMiddle

\* C20 (as stated): the show-actions threshold is the smaller of the two, so
\* a row whose action bar the width has emptied has its text hidden as well
\* (text can hide while actions remain, not the other way round).
C20_ActionsThresholdSmaller ==
    ~renderDue =>
        \A r \in 1..Len(rows) :
            rows[r].template.actionBar = <<>> => ~rows[r].template.hasText

\* C20 (amended): the show-text threshold is the smaller one.  A rendered row
\* has its text iff the width is at least MIDPOINT_WIDGET_WIDTH (63) and
\* holds the split and kill actions of its element iff the width is above
\* THRESHOLD_ACTIONBAR_WIDTH (105), its action bar being empty otherwise; no
\* row has its text hidden while actions remain.
C20_TextThresholdSmaller ==
    /\ MIDPOINT_WIDGET_WIDTH < THRESHOLD_ACTIONBAR_WIDTH
    /\ ~renderDue =>
          \A r \in 1..Len(rows) :
              LET template == rows[r].template
              IN  /\ template.hasText <=> clientWidth >= 63
                  /\ template.actionBar =
                         IF clientWidth > 105
                         THEN << [id |-> "SplitInstance",
                                  instance |-> rows[r].element],
                                 [id |-> "KillInstance",
                                  instance |-> rows[r].element] >>
                         ELSE <<>>
                  /\ ~template.hasText => template.actionBar = <<>>

\* A row rendered at the action-bar threshold itself, in a recycled
\* template: text shown, action bar empty.
C20_Witness ==
    /\ ~renderDue
    /\ clientWidth = THRESHOLD_ACTIONBAR_WIDTH
    /\ \E r \in 1..Len(rows) :
          /\ rows[r].template.hasText
          /\ rows[r].template.actionBar = <<>>
          /\ rows[r].previous # None


\* The cells of the editor's document.
DocCells == IF editorDoc = NoDoc THEN <<>> ELSE viewCells[editorDoc]

\* Each cell of the sequence has exactly one live cell state listener and no
\* other cell has any.
OneListenerPerCell(cells) ==
    \A c \in CellIds :
        liveListeners[c] = IF c \in Range(cells) THEN 1 ELSE 0

\* C13 (as stated): right after a document swap the previous document's
\* cell subscriptions are disposed, each cell of the new document has one
\* subscription, and the any-cell-running key reflects the new document: it
\* is false when no cell of the new document is pending or executing, as
\* after a swap to a document without cells.
C13_SwapRecomputesRunning ==
    (nlast.op = "changeModel" /\ editorDoc # NoDoc) =>
        /\ cellStateListeners = DocCells
        /\ OneListenerPerCell(DocCells)
        /\ (\A c \in Range(DocCells) :
                runState[c] = NotebookCellExecutionState.Idle)
              => ~keys.someCellRunning

\* C14: while the editor has a document, and so after every change of its
\* cells by one or several splices, the subscription sequence has the length
\* of the cell sequence, the subscription at each index is the one of the
\* cell at that index, every cell of the document has its one live
\* subscription and the subscriptions of removed cells are disposed.
C14_ListenersAlignedWithCells ==
    editorDoc # NoDoc =>
        /\ Len(cellStateListeners) = Len(DocCells)
        /\ \A k \in 1..Len(DocCells) : cellStateListeners[k] = DocCells[k]
        /\ OneListenerPerCell(DocCells)

\* an event of two splices removed two cells of the editor's document, whose
\* subscriptions are disposed
C14_Witness ==
    /\ nlast.op = "viewCells"
    /\ nlast.doc = editorDoc
    /\ nlast.splices = 2
    /\ Len(runState) = 2
    /\ DocCells = <<>>
    /\ cellStateListeners = <<>>
    /\ \A c \in CellIds : liveListeners[c] = 0

\* C15: while the editor has a document, after a kernel was added, a kernel
\* binding changed or the document changed, the kernel-count key is the
\* number of kernels matching the document, the kernel-selected key is true
\* iff a kernel is selected for it, and the interruptible key is true iff
\* that kernel implements interrupt.
C15_KernelKeysCurrent ==
    (editorDoc # NoDoc
       /\ nlast.op \in {"addKernel", "changeBinding", "changeModel"}) =>
        LET match == getMatchingKernel(editorDoc, kernels, binding)
        IN  /\ keys.kernelCount = Cardinality(match.all)
            /\ keys.kernelSelected <=> match.selected # None
            /\ keys.interruptible <=>
                  (match.selected # None
                     /\ implementsInterrupt(match.selected))
            /\ keys.interruptible => keys.kernelSelected

\* with two kernels matching the document, the binding changed to the one
\* that does not implement interrupt
C15_Witness ==
    /\ nlast.op = "changeBinding"
    /\ editorDoc # NoDoc
    /\ keys.kernelCount = 2
    /\ keys.kernelSelected
    /\ ~keys.interruptible


\* C16: at no time two render passes are in progress; a call of render that
\* arrives while a pass is between its start and its end, the await
\* included, starts no pass, changes nothing of the display or of the
\* suspended pass, and is dropped.
C16_NeverTwoPasses ==
    [][/\ passes' <= 1
       /\ (tlast'.op \in {"start", "drop"} /\ passes = 1) =>
             /\ tlast'.op = "drop"
             /\ passes' = 1
             /\ display' = display
             /\ pass' = pass]_tvars

\* a call of render was dropped while a pass awaited the extension query
C16_Witness ==
    /\ tlast.op = "drop"
    /\ passes = 1
    /\ pass.awaiting
    /\ rendering

\* C17 (as stated): the render calls of a burst leave one timer pending, the
\* timer fires after the last of them and no other is left, and a call
\* arriving while no pass is running is followed by a render pass: when its
\* timer fires with no pass in progress, a pass starts.
C17_BurstOnePassAlwaysRendered ==
    [][/\ tlast'.op = "notify" => timers' = 1
       /\ tlast'.op \in {"start", "drop"} =>
             /\ timers' = 0
             /\ passes = 0 => tlast'.op = "start"]_tvars

Rendered ==
    /\ rlast.op = "renderElement"
    /\ ~rlast.threw

\* The prefix the position of instance x in its group calls for.
PositionPrefix(x) ==
    LET group == terminalGroups[getGroupForInstance(x)]
    IN  IF Len(group) = 1 THEN NoPrefix
        ELSE IF group[1] = x THEN PrefixFirst
        ELSE IF group[Len(group)] = x THEN PrefixLast
        ELSE PrefixMiddle

\* C21: with the text hidden a row's label is the split prefix and one icon
\* glyph, nothing else: the icon of the primary status if there is one of
\* severity Warning or higher (the instance's icon if that status has none),
\* the instance's icon otherwise.
C21_HiddenTextLabel ==
    (Rendered /\ clientWidth < MIDPOINT_WIDGET_WIDTH) =>
        LET x == rows[1].element
            name == rows[1].template.name
            statuses == terminal[x].statuses
            severe == {k \in 1..Len(statuses) :
                          statuses[k].severity >= Severity.Warning}
            primary == Primary(statuses)
            glyph == IF severe # {} /\ primary[1].icon # Undefined
                     THEN primary[1].icon
                     ELSE terminal[x].icon
        IN  /\ ~rows[1].template.hasText
            /\ name = << PositionPrefix(x), "$(" \o glyph \o ")" >>

\* text hidden, the first terminal of a group has an Error status without an
\* icon: the label shows the instance's icon
C21_Witness ==
    /\ Rendered
    /\ ~rows[1].template.hasText
    /\ LET x == rows[1].element
       IN  /\ Len(terminal[x].statuses) = 1
           /\ terminal[x].statuses[1].severity = Severity.Error
           /\ terminal[x].statuses[1].icon = Undefined
           /\ rows[1].template.name = << PrefixFirst, "$(terminal)" >>

\* C22: with the text shown a row's label is the split prefix, the
\* instance's icon glyph and, iff the instance has an icon, its title; the
\* statuses have no part in it.
C22_ShownTextLabel ==
    (Rendered /\ clientWidth >= MIDPOINT_WIDGET_WIDTH) =>
        LET x == rows[1].element
            icon == terminal[x].icon
        IN  /\ rows[1].template.hasText
            /\ rows[1].template.name =
                 IF icon # Undefined
                 THEN << PositionPrefix(x), "$(" \o icon \o ")",
                         " " \o Title(x) >>
                 ELSE << PositionPrefix(x), "$(" \o icon \o ")" >>

\* text shown, the last terminal of a group has a Warning status with an
\* icon of its own: the label shows the instance's icon and the title
\* ("title" and the instance's number standing for instance.title)
C22_Witness ==
    /\ Rendered
    /\ rows[1].template.hasText
    /\ LET x == rows[1].element
       IN  /\ x = 2
           /\ Len(terminal[x].statuses) = 2
           /\ terminal[x].statuses[2].severity = Severity.Warning
           /\ terminal[x].statuses[2].icon = "warning"
           /\ rows[1].template.name
                 = << PrefixLast, "$(terminal)", " title2" >>

C24_NoGroupThrowsUntouched ==
    [][(rlast'.op = "renderElement"
          /\ getGroupForInstance(rlast'.element) = None) =>
            /\ rlast'.threw
            /\ rows'[1].template =
                 IF rows'[1].previous = None THEN renderTemplate
                 ELSE disposeElement(rows[1].element, 0, rows[1].template)]_rvars

\* the call threw on a template that shows another instance's row
C24_Witness ==
    /\ rlast.op = "renderElement"
    /\ rlast.threw
    /\ rows[1].previous \notin {None, rows[1].element}
    /\ rows[1].template.hasText
    /\ Len(rows[1].template.name) = 3
    /\ rows[1].template.actionBar # <<>>
    /\ rows[1].template.elementDispoables.listeners = <<>>

\* A status's block of the tooltip.
TooltipBlock(status) ==
    "\n\n---\n\n" \o (IF status.tooltip = Undefined THEN status.id
                      ELSE status.tooltip)

\* The tooltip of instance x up to its n-th status, and the hover actions
\* of its first n statuses.
RECURSIVE TooltipUpTo(_, _)
TooltipUpTo(x, n) ==
    IF n = 0 THEN Title(x)
    ELSE TooltipUpTo(x, n - 1) \o TooltipBlock(terminal[x].statuses[n])

RECURSIVE HoverActionsUpTo(_, _)
HoverActionsUpTo(x, n) ==
    IF n = 0 THEN <<>>
    ELSE HoverActionsUpTo(x, n - 1) \o terminal[x].statuses[n].hoverActions

\* C25: a rendered row's tooltip is the instance's title followed, status by
\* status in order, by a delimited block with the status's tooltip or, if it
\* has none, its id; its hover actions are the statuses' hover actions in
\* order and nothing else, whatever the template held before.
C25_TooltipAndHoverActions ==
    Rendered =>
        LET x == rows[1].element
            n == Len(terminal[x].statuses)
        IN  /\ rows[1].template.title = TooltipUpTo(x, n)
            /\ rows[1].template.hoverActions = HoverActionsUpTo(x, n)

\* the terminal with two statuses rendered again into its released template:
\* a tooltip block, an id block, and the two hover actions once
C25_Witness ==
    /\ Rendered
    /\ rows[1].previous = rows[1].element
    /\ rows[1].template.title
          = "title2\n\n---\n\nBell\n\n---\n\nrelaunch-needed"
    /\ rows[1].template.hoverActions = <<"configure", "relaunch">>

\* C26: on the workspace trust test doubles every operation without an
\* implementation (all of the management double except isWorkpaceTrusted and
\* setWorkspaceTrust; cancelRequest and completeRequest of the request
\* double) ends with an error, leaves the stored trust value as it was and
\* fires no event; requestWorkspaceTrust answers the value the request double
\* was constructed with.
C26_UnimplementedFailsHard ==
    [][/\ dlast'.op \in UnimplementedManagement \cup UnimplementedRequest
            => /\ Failed(dlast'.outcome)
               /\ managementTrusted' = managementTrusted
               /\ fired' = fired
       /\ dlast'.op = "requestWorkspaceTrust"
            => /\ ~Failed(dlast'.outcome)
               /\ dlast'.value = <<constructed.request>>]_dvars

\* setParentFolderTrust failed when called with the opposite of the stored
\* value, after the stored value had moved away from the constructor's
C26_Witness ==
    /\ dlast.op = "setParentFolderTrust"
    /\ dlast.arg = <<~managementTrusted>>
    /\ dlast.outcome = "throws"
    /\ managementTrusted # constructed.management
    /\ Len(fired) = 1

\* the three tests outside Windows: the files that exist, the lines of
\* /etc/shells, the configuration and the profiles the test expects
TestCases ==
    {[paths |-> {AbsolutePath(1), AbsolutePath(3)}, lines |-> <<>>,
      config |-> absoluteConfig({1, 2, 3}),
      expected |-> <<Profile(ShellName(1), AbsolutePath(1), Undefined),
                     Profile(ShellName(3), AbsolutePath(3), Undefined)>>],
     [paths |-> {AbsolutePath(1), AbsolutePath(3)},
      lines |-> <<AbsolutePath(1), AbsolutePath(3)>>,
      config |-> onPathConfig({1, 2, 3}),
      expected |-> <<Profile(ShellName(1), OnPath(1), Undefined),
                     Profile(ShellName(3), OnPath(3), Undefined)>>],
     [paths |-> {AbsolutePath(1)},
      lines |-> <<AbsolutePath(1), AbsolutePath(3)>>,
      config |-> onPathConfig({1, 2, 3}),
      expected |-> <<Profile(ShellName(1), OnPath(1), Undefined)>>]}

SetUpOf(t) ==
    /\ expectedPaths = t.paths
    /\ etcShellsContent = t.lines
    /\ configProfiles = t.config

Named(profiles, name) ==
    {k \in 1..Len(profiles) : profiles[k].profileName = name}

C28_RunningIffSomeCellNotIdle ==
    editorDoc # NoDoc =>
        (keys.someCellRunning
            <=> \E c \in Range(DocCells) :
                    runState[c] # NotebookCellExecutionState.Idle)

\* C29 (as stated): a render pass that set the rendering guard clears it,
\* also when the extension query fails; the guard is set only while a pass
\* is under way, so that a later notification can start a new pass.
C29_GuardClearedWhenPassOver ==
    rendering => pass.awaiting

\* C30 (as stated): when a render pass completes, the header and the button
\* it offers agree on one trust value: a "trusted" header never comes with
\* the Trust button, a "restricted" header never with the Don't Trust button
\* or the trusted-via-folder text, also when the trust value changed while
\* the pass awaited the extension query; and a Trust or Don't Trust button
\* is there only when the workspace trust can be set.
C30_HeaderAndButtonAgree ==
    tlast.op = "complete" =>
        /\ display.header = headerOf(TRUE) => display.button # "trust"
        /\ display.header = headerOf(FALSE)
              => display.button \notin {"dontTrust", "trustedText"}
        /\ display.button \in {"trust", "dontTrust"} => canSet

\* C31 (as stated): the index the controller passes to setSelection and
\* reveal on an active-instance-changed notification is a valid index of the
\* list's current sequence (0 <= i < length): not -1, and not at or beyond
\* the length when the notification arrives before instances-changed has
\* re-rendered the list.
C31_ActiveIndexValid ==
    [][(last'.op = ActiveInstanceChanged /\ last'.inst # None)
          => ValidIndex(list, IndexOf(instances, last'.inst))]_vars

\* C32 (as stated): whenever the editor has no document, after a document
\* change or an event of the kernel registry, the three kernel keys are at
\* their defaults: kernel-count and interruptible-kernel are reset and
\* kernel-selected is not left true from the document shown before.
C32_NoDocumentKernelDefaults ==
    editorDoc = NoDoc =>
        /\ keys.kernelCount = KeyDefaults.kernelCount
        /\ keys.interruptible = KeyDefaults.interruptible
        /\ keys.kernelSelected = KeyDefaults.kernelSelected

\* C33 (as stated): after dispose() no editor, kernel-service, document or
\* cell subscription remains and the listener array is empty, each of the
\* five keys the synchronizer bound (kernel-count, kernel-selected,
\* interruptible-kernel, any-cell-running, view-type) is at its default, and
\* no later event changes any of them.
C33_DisposedLeavesDefaults ==
    ~subscribed =>
        /\ viewCellsListener = NoDoc
        /\ cellStateListeners = <<>>
        /\ \A c \in CellIds : liveListeners[c] = 0
        /\ keys = KeyDefaults


\* C34: once the pane's body is rendered, after every instance-created
\* notification the tabbed view exists, and at most one tabbed view is ever
\* created.
C34_TabbedViewAfterInstanceCreated ==
    /\ tabbedViewsCreated <= 1
    /\ (/\ vlast.op = "instanceCreated" \/ vlast.did = "create"
        /\ pane.parentDomElement)
           => pane.terminalTabbedView


\* C35: over the body-visibility changes the rendered pane hears,
\* initializeTerminals is called at most once, on the first change to visible
\* with process support registered; every later change to visible with
\* process support creates a terminal iff there is no terminal group; with no
\* process support a change neither initializes nor creates.
C35_VisibilityInitializesOnce ==
    /\ initializeCalls <= 1
    /\ vlast.op = "visibility" =>
        LET before == initializeCalls
                          - (IF vlast.did = "initialize" THEN 1 ELSE 0)
            heard == pane.parentDomElement /\ vlast.visible
                        /\ vlast.registered
        IN  /\ vlast.did = "initialize" <=> (heard /\ before = 0)
            /\ vlast.did = "create"
                  <=> (heard /\ before > 0 /\ ~vlast.hadTerminals)
            /\ ~vlast.registered => vlast.did = "none"

\* a later change to visible, after initializeTerminals was called, finds no
\* terminal group and creates a terminal
C35_Witness ==
    /\ vlast.op = "visibility"
    /\ vlast.did = "create"
    /\ initializeCalls = 1


\* C36: after renderElement, at any width and on any template, the
\* template's action bar holds exactly Split and Kill, in that order and
\* bound to the instance just rendered, when the width is above
\* THRESHOLD_ACTIONBAR_WIDTH, and is empty otherwise; actions never
\* accumulate and none stays bound to an instance rendered before.
C36_ActionBarOfRenderedInstance ==
    ~renderDue =>
        \A r \in 1..Len(rows) :
            LET bar == rows[r].template.actionBar
            IN  /\ Len(bar) <= 2
                /\ \A k \in 1..Len(bar) : bar[k].instance = rows[r].element
                /\ IF clientWidth > THRESHOLD_ACTIONBAR_WIDTH
                   THEN <<bar[1].id, bar[2].id>>
                            = <<"SplitInstance", "KillInstance">>
                   ELSE bar = <<>>

\* A row above the threshold in a template recycled from another instance,
\* holding that row's own two actions.
C36_Witness ==
    /\ ~renderDue
    /\ clientWidth > THRESHOLD_ACTIONBAR_WIDTH
    /\ \E r \in 1..Len(rows) :
          /\ rows[r].previous \notin {None, rows[r].element}
          /\ Len(rows[r].template.actionBar) = 2
          /\ rows[r].template.actionBar[1].instance = rows[r].element


\* C37: on the trust-management double, setWorkspaceTrust(v) fires the
\* trust-changed event exactly once, carrying v, when v differs from the
\* stored value and fires nothing when it equals it; only
\* setWorkspaceTrust changes the stored value, which isWorkpaceTrusted
\* returns and which starts as the constructor's argument; consecutive
\* fired events carry alternating values.
C37_FiresOnceOnChange ==
    [][/\ dlast'.op = "setWorkspaceTrust" =>
            /\ managementTrusted' = dlast'.arg[1]
            /\ fired' = IF managementTrusted # dlast'.arg[1]
                        THEN Append(fired, DidChangeTrust(dlast'.arg[1]))
                        ELSE fired
       /\ dlast'.op # "setWorkspaceTrust" =>
            /\ managementTrusted' = managementTrusted
            /\ fired' = fired
       /\ dlast'.op = "isWorkpaceTrusted" =>
            dlast'.value = <<managementTrusted>>
       /\ fired' # <<>> =>
            fired'[1].value = ~constructed.management
       /\ \A k \in 1..(Len(fired') - 1) :
            fired'[k + 1].value = ~fired'[k].value]_dvars

\* two events fired, the second by the call just made
C37_Witness ==
    /\ dlast.op = "setWorkspaceTrust"
    /\ Len(fired) = 2
    /\ fired[2].value = dlast.arg[1]
    /\ fired[1].value # fired[2].value


\* C38 (as stated): the execution counter behind the any-cell-running key
\* never goes below zero and always equals the number of cells of the
\* editor's document that are pending or executing.
C38_CounterIsRunningCells ==
    editorDoc # NoDoc =>
        /\ executionCount >= 0
        /\ executionCount =
               Cardinality({c \in Range(DocCells) :
                               runState[c] # NotebookCellExecutionState.Idle})

=============================================================================
